---- MODULE Spec2Model ----
(***************************************************************************)
(* PathFinder+ (src/PathFinder_plus.py): the segment enumerator            *)
(* (print_all_paths / print_all_paths_util), the segment reducer (Step 1B  *)
(* of generate_paths), the mission expander (deconstruct / parse_mission   *)
(* and Step 2 of generate_paths), the mission assembler (Steps 3 and 4 of  *)
(* generate_paths with perm) and the Step 1A scheduler (the queue loop of  *)
(* generate_paths with the worker processes of save_this_data).            *)
(*                                                                         *)
(* Strings are modelled as sequences of tokens.  A node identifier is one  *)
(* token; the operator characters ( ) + _ , : are one token each.  In the  *)
(* enumerator a node is its index in node_id (0 is 'start') and nameLen    *)
(* gives the number of characters of its identifier.                       *)
(***************************************************************************)
EXTENDS Integers, Sequences, FiniteSets, TLC

VARIABLES
    pc,               \* position of the run
    ABN,              \* edge (from, to) -> travel distance in ft
    delta_H,          \* edge (from, to) -> change of height in ft
    datapack,         \* what generate_paths hands to one enumeration worker
    seg_paths,        \* segment_paths[this_key] of the worker
    seg_pathdata,     \* segment_pathdata of the worker (ordered dict)
    content,          \* lines of one PathData_ file read by Step 1B
    cutoff_fastest,   \* setup value
    cutoff_lightest,  \* setup value
    red,              \* Step 1B loop state for the file being reduced
    tsets,            \* non-comment lines of TSets+.txt
    exp,              \* deconstruct loop state for the line being expanded
    missions,         \* mission list of Step 2
    setup,            \* max_time, max_consumables, max_weight of Setup.txt
    eval_segments,    \* reduced segment dictionary: leg key -> path strings
    route_list,       \* Step 3: per mission, the path options of each leg
    mission_count,    \* Step 4: missions handed to perm so far
    result,           \* perm: the list of lists being combined
    scenarios,        \* Step 4: lists returned by perm, with their mission
    invalid,          \* lines of Invalid_Paths.txt written by perm
    paths_out,        \* path lines of Valid_Paths.txt
    n_processors,     \* os.cpu_count() - n_reserved
    node_id,          \* identifiers of the nodes of the graph
    queue,            \* segments waiting to be spawned
    working,          \* manager list of PathData_ files being made
    ready4dict,       \* manager list of PathData_ files announced as made
    coord,            \* position of the coordinator in the queue loop
    workers,          \* process -> position of that worker process
    disk,             \* files on disk: working_pathdata_ and PathData_ files
    to_process        \* PathData_ files found by Step 1B

enumVars == <<ABN, delta_H, datapack, seg_paths, seg_pathdata>>
redVars  == <<content, cutoff_fastest, cutoff_lightest, red>>
expVars  == <<tsets, exp, missions>>
asmVars  == <<setup, eval_segments, route_list, mission_count, result, scenarios,
              invalid, paths_out>>
schedVars == <<n_processors, node_id, queue, working, ready4dict, coord, workers,
               disk, to_process>>
vars     == <<pc, enumVars, redVars, expVars, asmVars, schedVars>>

-----------------------------------------------------------------------------
(* Bounds of the model                                                     *)

NNodes == 4           \* nodes of a graph, 'start' included
MaxEdges == 3         \* directed edges of a graph
MaxLines == 3         \* lines of a PathData_ file
MaxCost == 3          \* largest time / consumable value of a PathData_ line
MaxCutoff == 2        \* largest cutoff_fastest / cutoff_lightest
NAtoms == 3           \* node identifiers used in target-set logic
MaxOperands == 3      \* operands of one parenthesis group

-----------------------------------------------------------------------------
(* Generic helpers                                                         *)

Range(s) == {s[i] : i \in DOMAIN s}

Max2(a, b) == IF a > b THEN a ELSE b

RECURSIVE SumTo(_, _, _)
\* f[lo] + ... + f[hi]
SumTo(f, lo, hi) == IF hi < lo THEN 0 ELSE f[hi] + SumTo(f, lo, hi - 1)

RECURSIVE SetToSortedSeq(_)
\* the elements of a finite set of integers in ascending order
SetToSortedSeq(S) ==
    IF S = {} THEN <<>>
    ELSE LET m == CHOOSE x \in S : \A y \in S : x <= y
         IN  <<m>> \o SetToSortedSeq(S \ {m})

RECURSIVE Factorial(_)
Factorial(n) == IF n <= 1 THEN 1 ELSE n * Factorial(n - 1)

-----------------------------------------------------------------------------
(* Graph store and breach catalog                                          *)

Nodes == 0 .. (NNodes - 1)
StartNode == 0
TNodes == Nodes \ {StartNode}

NTools == 20
ToolIdx == 0 .. (NTools - 1)
NoTools == [i \in ToolIdx |-> 0]

\* Setup.txt defaults
adv_speed == 11
ascend_fatigue_milli == 500
descend_fatigue_milli == 50

\* Breaches.csv: material -> breach time, consumable weight, 20 tool weights
Materials == {"none", "steel", "conc"}
breach_techniques ==
    [m \in Materials |->
        CASE m = "none"  -> [time |-> 0, consum |-> 0, tools |-> NoTools]
          [] m = "steel" -> [time |-> 100, consum |-> 10,
                             tools |-> [NoTools EXCEPT ![0] = 5]]
          [] m = "conc"  -> [time |-> 50, consum |-> 5,
                             tools |-> [NoTools EXCEPT ![NTools - 1] = 7]]]

\* get_all_breaches: node -> breach time / consumable / tools of its material
get_all_breaches(matl) ==
    [node_time   |-> [n \in Nodes |-> IF n = StartNode THEN 0
                                      ELSE breach_techniques[matl[n]].time],
     node_consum |-> [n \in Nodes |-> IF n = StartNode THEN 0
                                      ELSE breach_techniques[matl[n]].consum],
     node_tools  |-> [n \in Nodes |-> IF n = StartNode THEN NoTools
                                      ELSE breach_techniques[matl[n]].tools]]

\* load_g_from_file: adjacency lists, neighbours in the order of the edge table
load_g_from_file(abn) ==
    [u \in Nodes |-> SetToSortedSeq({v \in Nodes : <<u, v>> \in DOMAIN abn})]

\* int(x) of Python: truncation toward zero of num / den, den > 0
TruncDiv(num, den) == IF num >= 0 THEN num \div den ELSE -((-num) \div den)

\* Step 4 of generate_paths: move_time of the edge (a, b)
move_time(a, b) ==
    LET move_dist == ABN[<<a, b>>]
        d == delta_H[<<a, b>>]
        vertical_milli == IF d > 0 THEN d * ascend_fatigue_milli
                          ELSE d * descend_fatigue_milli
    IN  TruncDiv(move_dist * 1000 + (vertical_milli + 51) * adv_speed,
                 1000 * adv_speed)

-----------------------------------------------------------------------------
(* Segment enumerator                                                      *)

\* my_path after "if len(my_path) > 1: my_path += '-' + item_id
\*                else: my_path = item_id"
AppendNode(my_path, item, nameLen) ==
    IF Len(my_path) > 1 \/ (Len(my_path) = 1 /\ nameLen[my_path[1]] > 1)
    THEN Append(my_path, item)
    ELSE <<item>>

ToolLoopEnd == 19

\* the "for i in range(0, 19)" loop over the tools of one path item
MergeTools(old_tools, new_tools) ==
    [i \in ToolIdx |-> IF i < ToolLoopEnd /\ old_tools[i] > new_tools[i]
                       THEN old_tools[i] ELSE new_tools[i]]

RECURSIVE PathTotals(_, _, _, _)
\* the "for item in path" loop of print_all_paths_util, from item k on
PathTotals(path, k, dp, st) ==
    IF k > Len(path) THEN st
    ELSE LET item == path[k]
             consum == st.total_consum + dp.node_consum[item]
             tools == MergeTools(dp.node_tools[item], st.new_tools)
         IN  PathTotals(path, k + 1, dp,
                 [my_path      |-> AppendNode(st.my_path, item, dp.nameLen),
                  total_consum |-> consum,
                  total_time   |-> st.total_time + dp.node_time[item],
                  total_weight |-> consum + SumTo(tools, 0, ToolLoopEnd - 1),
                  new_tools    |-> tools])

\* segment_pathdata[key] = value on an insertion-ordered dict
DictPut(dict, key, value) ==
    IF \E j \in DOMAIN dict : dict[j].path = key
    THEN [j \in DOMAIN dict |-> IF dict[j].path = key THEN value ELSE dict[j]]
    ELSE Append(dict, value)

\* the "if u == d" branch of print_all_paths_util
RecordPath(path, dp, acc) ==
    LET st == PathTotals(path, 1, dp,
                  [my_path |-> <<>>, total_consum |-> 0, total_time |-> 0,
                   total_weight |-> 0, new_tools |-> NoTools])
    IN  IF /\ st.total_consum <= dp.max_consumables
           /\ st.total_time <= dp.max_time
           /\ st.total_weight <= dp.max_weight
        THEN [paths |-> Append(acc.paths, st.my_path),
              data  |-> DictPut(acc.data, st.my_path,
                            [path   |-> st.my_path,
                             time   |-> st.total_time,
                             consum |-> st.total_consum,
                             weight |-> st.total_weight,
                             tools  |-> st.new_tools])]
        ELSE acc

RECURSIVE print_all_paths_util(_, _, _, _, _, _)
RECURSIVE VisitNeighbours(_, _, _, _, _, _, _)

\* the "for i in g[u]" loop, from the k-th neighbour on
VisitNeighbours(nbrs, k, d, visited, path, acc, dp) ==
    IF k > Len(nbrs) THEN acc
    ELSE VisitNeighbours(nbrs, k + 1, d, visited, path,
             IF nbrs[k] \notin visited
             THEN print_all_paths_util(nbrs[k], d, visited, path, acc, dp)
             ELSE acc,
             dp)

print_all_paths_util(u, d, visited, path, acc, dp) ==
    LET visited1 == visited \cup {u}
        path1 == Append(path, u)
    IN  IF u = d THEN RecordPath(path1, dp, acc)
        ELSE VisitNeighbours(dp.g[u], 1, d, visited1, path1, acc, dp)

\* print_all_paths: one worker enumerates the key (datapack.start, datapack.dest)
print_all_paths ==
    /\ pc = "spawned"
    /\ LET acc == print_all_paths_util(datapack.start, datapack.dest, {}, <<>>,
                      [paths |-> <<>>, data |-> <<>>], datapack)
       IN  /\ seg_paths' = acc.paths
           /\ seg_pathdata' = acc.data
    /\ pc' = "enumerated"
    /\ UNCHANGED <<ABN, delta_H, datapack, redVars, expVars, asmVars, schedVars>>

-----------------------------------------------------------------------------
(* Inputs of the enumerator                                                *)

CandEdges == {e \in Nodes \X Nodes : e[1] # e[2] /\ e[2] # StartNode}

Graphs == {E \in SUBSET CandEdges : Cardinality(E) <= MaxEdges}

\* the edge tables the model draws from: a flat one and one with rises
EdgeTables ==
    {[dist |-> [e \in CandEdges |-> 11], rise |-> [e \in CandEdges |-> 0]],
     [dist |-> [e \in CandEdges |-> 11 * (e[1] + e[2])],
      rise |-> [e \in CandEdges |-> 2 * (e[2] - e[1])]]}

\* identifiers of one character ("A") or of more ("T1"); 'start' has five
NameLens == {[n \in Nodes |-> IF n = StartNode THEN 5 ELSE l] : l \in {1, 2}}

Budgets == {[max_time |-> 200, max_consumables |-> 50, max_weight |-> 50],
            [max_time |-> 100, max_consumables |-> 10, max_weight |-> 15]}

NoRed == [idx |-> 0, fastest |-> <<>>, lightest |-> <<>>,
          cutoff_time |-> 0, cutoff_consum |-> 0, combo |-> <<>>]
NoExp == [line_no |-> 0, to_process |-> <<>>, processed |-> <<>>]

RedIdle == /\ content = <<>>
           /\ cutoff_fastest = 0
           /\ cutoff_lightest = 0
           /\ red = NoRed

ExpIdle == /\ tsets = <<>>
           /\ exp = NoExp
           /\ missions = <<>>

AsmIdle == /\ setup = <<>>
           /\ eval_segments = <<>>
           /\ route_list = <<>>
           /\ mission_count = 0
           /\ result = <<>>
           /\ scenarios = <<>>
           /\ invalid = <<>>
           /\ paths_out = <<>>

SchedIdle == /\ n_processors = 0
             /\ node_id = <<>>
             /\ queue = <<>>
             /\ working = <<>>
             /\ ready4dict = <<>>
             /\ coord = <<>>
             /\ workers = <<>>
             /\ disk = {}
             /\ to_process = {}

InitEnum ==
    /\ pc = "spawned"
    /\ \E E \in Graphs, t \in EdgeTables :
          /\ ABN = [e \in E |-> t.dist[e]]
          /\ delta_H = [e \in E |-> t.rise[e]]
    /\ \E matl \in [TNodes -> Materials], nl \in NameLens, b \in Budgets,
          s \in {StartNode, 1} :
          LET br == get_all_breaches(matl)
          IN  datapack = [g |-> load_g_from_file(ABN),
                          nameLen |-> nl,
                          node_time |-> br.node_time,
                          node_consum |-> br.node_consum,
                          node_tools |-> br.node_tools,
                          max_time |-> b.max_time,
                          max_consumables |-> b.max_consumables,
                          max_weight |-> b.max_weight,
                          start |-> s,
                          dest |-> NNodes - 1]
    /\ seg_paths = <<>>
    /\ seg_pathdata = <<>>
    /\ RedIdle
    /\ ExpIdle
    /\ AsmIdle
    /\ SchedIdle

NextEnum == print_all_paths

SpecEnum == InitEnum /\ [][NextEnum]_vars

-----------------------------------------------------------------------------
(* What the specification says an enumerated path costs                    *)

\* all simple paths from s to d over the edges of ABN
SimplePaths(s, d) ==
    {p \in UNION {[1 .. n -> Nodes] : n \in 2 .. NNodes} :
        /\ p[1] = s
        /\ p[Len(p)] = d
        /\ \A i, j \in DOMAIN p : i # j => p[i] # p[j]
        /\ \A i \in 1 .. (Len(p) - 1) : <<p[i], p[i + 1]>> \in DOMAIN ABN}

RECURSIVE SumAfterFirst(_, _, _)
\* f[p[k]] summed over the nodes of p after the first, from position k on
SumAfterFirst(f, p, k) ==
    IF k > Len(p) THEN 0 ELSE f[p[k]] + SumAfterFirst(f, p, k + 1)

RECURSIVE TravelTime(_, _)
\* travel time of the edges of p from position k on
TravelTime(p, k) ==
    IF k >= Len(p) THEN 0 ELSE move_time(p[k], p[k + 1]) + TravelTime(p, k + 1)

RECURSIVE MaxTool(_, _, _)
\* largest weight of tool i over the nodes of p from position k on
MaxTool(i, p, k) ==
    IF k > Len(p) THEN 0
    ELSE Max2(datapack.node_tools[p[k]][i], MaxTool(i, p, k + 1))

DocTime(p) == TravelTime(p, 1) + SumAfterFirst(datapack.node_time, p, 2)
DocConsum(p) == SumAfterFirst(datapack.node_consum, p, 2)
DocWeight(p) == DocConsum(p) + SumTo([i \in ToolIdx |-> MaxTool(i, p, 2)], 0, NTools - 1)

Admissible(p) ==
    /\ DocTime(p) <= datapack.max_time
    /\ DocConsum(p) <= datapack.max_consumables
    /\ DocWeight(p) <= datapack.max_weight

\* every identifier has more than one character: the emitted strings then
\* are the whole node sequence (see C2)
LongNames == \A n \in Nodes : datapack.nameLen[n] > 1

Enumerated == pc = "enumerated"

\* C1: the paths recorded for the key (from, to) are exactly the simple paths
\* from `from` to `to` whose time (travel and breach), consumable and weight
\* are within max_time, max_consumables and max_weight.
C1_ExactlyAdmissible ==
    (Enumerated /\ LongNames) =>
        Range(seg_paths) =
            {p \in SimplePaths(datapack.start, datapack.dest) : Admissible(p)}

\* C2: every emitted path has no repeated node, starts with `from` and ends
\* with `to`.
C2_SimpleFromTo ==
    Enumerated =>
        \A k \in DOMAIN seg_paths :
            LET p == seg_paths[k]
            IN  /\ \A i, j \in DOMAIN p : i # j => p[i] # p[j]
                /\ p[1] = datapack.start
                /\ p[Len(p)] = datapack.dest

\* C3: the recorded total_time of an emitted path is the travel time of its
\* edges plus the breach time of every node after the origin.
C3_TotalTime ==
    (Enumerated /\ LongNames) =>
        \A k \in DOMAIN seg_pathdata :
            seg_pathdata[k].time = DocTime(seg_pathdata[k].path)

\* C4: the recorded total_consumable of an emitted path is the consumable
\* weight of its nodes after the first; the origin is not charged.
C4_ConsumAfterFirst ==
    (Enumerated /\ LongNames) =>
        \A k \in DOMAIN seg_pathdata :
            seg_pathdata[k].consum = DocConsum(seg_pathdata[k].path)

\* C5: for every tool index i in 0..19 the recorded tool_weights[i] is the
\* largest tool_weights[i] over the breached nodes of the path (the origin
\* counted or not), and total_weight is total_consumable plus the 20 recorded
\* tool weights.
C5_ToolWeights ==
    (Enumerated /\ LongNames) =>
        \A k \in DOMAIN seg_pathdata :
            LET e == seg_pathdata[k]
            IN  /\ \/ \A i \in ToolIdx : e.tools[i] = MaxTool(i, e.path, 1)
                   \/ \A i \in ToolIdx : e.tools[i] = MaxTool(i, e.path, 2)
                /\ e.weight = e.consum + SumTo(e.tools, 0, NTools - 1)

-----------------------------------------------------------------------------
(* Segment reducer: Step 1B of generate_paths for one PathData_ file       *)

CutoffStart == 999999

\* one pass of "if float(x) < cutoff: if len(keep) >= limit: keep.pop(); ..."
\* keep.pop() on an empty list raises IndexError
KeepLine(keep, cutoff, limit, value, x_line) ==
    IF value < cutoff
    THEN IF Len(keep) >= limit
         THEN IF keep = <<>>
              THEN [raised |-> TRUE, keep |-> keep, cutoff |-> cutoff]
              ELSE [raised |-> FALSE,
                    keep   |-> Append(SubSeq(keep, 1, Len(keep) - 1), x_line),
                    cutoff |-> value]
         ELSE [raised |-> FALSE, keep |-> Append(keep, x_line), cutoff |-> cutoff]
    ELSE [raised |-> FALSE, keep |-> keep, cutoff |-> cutoff]

\* the body of "for x_line in content"
ReduceLine ==
    /\ pc = "reducing"
    /\ red.idx < Len(content)
    /\ LET x_line == content[red.idx + 1]
           f == KeepLine(red.fastest, red.cutoff_time, cutoff_fastest,
                         x_line.time, x_line)
           l == KeepLine(red.lightest, red.cutoff_consum, cutoff_lightest,
                         x_line.consum, x_line)
       IN  IF f.raised
           THEN /\ pc' = "crashed"
                /\ red' = red
           ELSE IF l.raised
           THEN /\ pc' = "crashed"
                /\ red' = [red EXCEPT !.fastest = f.keep,
                                      !.cutoff_time = f.cutoff]
           ELSE /\ pc' = pc
                /\ red' = [red EXCEPT !.idx = red.idx + 1,
                                      !.fastest = f.keep,
                                      !.cutoff_time = f.cutoff,
                                      !.lightest = l.keep,
                                      !.cutoff_consum = l.cutoff]
    /\ UNCHANGED <<content, cutoff_fastest, cutoff_lightest, enumVars, expVars,
                   asmVars, schedVars>>

RECURSIVE AppendNew(_, _, _)
\* "for x_line in lightest: if x_line not in combo: combo.append(x_line)"
AppendNew(combo, lightest, k) ==
    IF k > Len(lightest) THEN combo
    ELSE AppendNew(IF lightest[k] \in Range(combo) THEN combo
                   ELSE Append(combo, lightest[k]),
                   lightest, k + 1)

\* "Combine fastest & lightest"
ReduceCombine ==
    /\ pc = "reducing"
    /\ red.idx = Len(content)
    /\ red' = [red EXCEPT !.combo = AppendNew(red.fastest, red.lightest, 1)]
    /\ pc' = "reduced"
    /\ UNCHANGED <<content, cutoff_fastest, cutoff_lightest, enumVars, expVars,
                   asmVars, schedVars>>

Costs == 1 .. MaxCost

\* a file of n lines: the lines are distinct paths, line i costing c[i]
PathDataFile(n, c) ==
    [i \in 1 .. n |-> [path |-> i, time |-> c[i][1], consum |-> c[i][2]]]

EnumIdle ==
    /\ ABN = <<>>
    /\ delta_H = <<>>
    /\ datapack = <<>>
    /\ seg_paths = <<>>
    /\ seg_pathdata = <<>>

InitReduce ==
    /\ pc = "reducing"
    /\ \E n \in 0 .. MaxLines : \E c \in [1 .. n -> Costs \X Costs] :
          content = PathDataFile(n, c)
    /\ cutoff_fastest \in 0 .. MaxCutoff
    /\ cutoff_lightest \in 0 .. MaxCutoff
    /\ red = [idx |-> 0, fastest |-> <<>>, lightest |-> <<>>,
              cutoff_time |-> CutoffStart, cutoff_consum |-> CutoffStart,
              combo |-> <<>>]
    /\ EnumIdle
    /\ ExpIdle
    /\ AsmIdle
    /\ SchedIdle

NextReduce == ReduceLine \/ ReduceCombine

SpecReduce == InitReduce /\ [][NextReduce]_vars

Min2(a, b) == IF a < b THEN a ELSE b

\* the sets of k lines of the file with the smallest value of field
Smallest(k, value(_)) ==
    {S \in SUBSET Range(content) :
        /\ Cardinality(S) = Min2(k, Len(content))
        /\ \A a \in S : \A b \in Range(content) \ S : value(a) <= value(b)}

TimeOf(x_line) == x_line.time
ConsumOf(x_line) == x_line.consum

\* C6: with cutoff_fastest = Kf >= 1 and cutoff_lightest = Kl >= 1 the reduced
\* entry is the union of the Kf lines of smallest total_time and the Kl lines
\* of smallest total_consumable, whatever the order of the lines.
C6_UnionOfSmallest ==
    (pc = "reduced" /\ cutoff_fastest >= 1 /\ cutoff_lightest >= 1) =>
        \E F \in Smallest(cutoff_fastest, TimeOf) :
            \E L \in Smallest(cutoff_lightest, ConsumOf) :
                Range(red.combo) = F \cup L

\* C7: with a cutoff of 0 the reducer applies no limit: it completes normally
\* and the reduced entry holds every line of the entry.
C7_ZeroMeansAll ==
    ((cutoff_fastest = 0 \/ cutoff_lightest = 0) /\ content # <<>>) =>
        /\ pc # "crashed"
        /\ pc = "reduced" => Range(red.combo) = Range(content)

-----------------------------------------------------------------------------
(* Mission expander: deconstruct, parse_mission, Step 2 of generate_paths  *)

AtomNames == <<"A", "B", "C", "D", "E">>
Atoms == {AtomNames[i] : i \in 1 .. NAtoms}
Ops == {"+", "_", ","}

RECURSIVE Concat(_)
\* the strings of a list joined end to end
Concat(ss) == IF ss = <<>> THEN <<>> ELSE Head(ss) \o Concat(Tail(ss))

\* str.find(tok): the first position of tok in s, 0 when absent
Find(s, tok) ==
    IF \E i \in DOMAIN s : s[i] = tok
    THEN CHOOSE i \in DOMAIN s : s[i] = tok /\ \A j \in 1 .. (i - 1) : s[j] # tok
    ELSE 0

RECURSIVE split(_, _)
\* str.split(tok)
split(s, tok) ==
    LET i == Find(s, tok)
    IN  IF i = 0 THEN <<s>>
        ELSE <<SubSeq(s, 1, i - 1)>> \o split(SubSeq(s, i + 1, Len(s)), tok)

RECURSIVE ReplaceColons(_)
\* str.replace("::", ":")
ReplaceColons(s) ==
    IF Len(s) < 2 THEN s
    ELSE IF s[1] = ":" /\ s[2] = ":"
         THEN <<":">> \o ReplaceColons(SubSeq(s, 3, Len(s)))
         ELSE <<s[1]>> \o ReplaceColons(Tail(s))

\* str.replace(tok, "")
Strip(s, tok) == SelectSeq(s, LAMBDA c : c # tok)

RECURSIVE DepthAt(_, _)
\* n_depth of paren_depth after the first i characters of line
DepthAt(line, i) ==
    IF i = 0 THEN 0
    ELSE DepthAt(line, i - 1)
         + (IF line[i] = "(" THEN 1 ELSE IF line[i] = ")" THEN -1 ELSE 0)

paren_depth(line) ==
    IF line = <<>> THEN 0
    ELSE LET ds == {DepthAt(line, i) : i \in 0 .. Len(line)}
         IN  CHOOSE m \in ds : \A x \in ds : x <= m

\* s without its i-th element
RemoveAt(s, i) == SubSeq(s, 1, i - 1) \o SubSeq(s, i + 1, Len(s))

RECURSIVE permutations(_)
RECURSIVE PermsFrom(_, _)
\* the permutations of actions that start with its i-th, (i+1)-th, ... element
PermsFrom(actions, i) ==
    IF i > Len(actions) THEN <<>>
    ELSE LET rest == permutations(RemoveAt(actions, i))
         IN  [k \in DOMAIN rest |-> <<actions[i]>> \o rest[k]]
             \o PermsFrom(actions, i + 1)

\* permutations that only move one operand to the front
permutations_front(actions) ==
    [i \in DOMAIN actions |-> <<actions[i]>> \o RemoveAt(actions, i)]

\* list(itertools.permutations(actions))
permutations(actions) ==
    IF actions = <<>> THEN << <<>> >> ELSE PermsFrom(actions, 1)

\* "if node[-1] == ':': s += node  else: s += node + ':'"
WithColon(node) == IF node[Len(node)] = ":" THEN node ELSE Append(node, ":")

RECURSIVE JoinNodes(_)
\* the loops that build perm_string / mystring from a list of operands
JoinNodes(combo) ==
    IF combo = <<>> THEN <<>> ELSE WithColon(Head(combo)) \o JoinNodes(Tail(combo))

\* parse_mission that treats "_" as it treats "+"
parse_mission_unordered(mission_fragment) ==
    IF "+" \in Range(mission_fragment)
    THEN LET perms == permutations(split(mission_fragment, "+"))
         IN  [k \in DOMAIN perms |-> JoinNodes(perms[k])]
    ELSE IF "_" \in Range(mission_fragment)
    THEN LET perms == permutations(split(mission_fragment, "_"))
         IN  [k \in DOMAIN perms |-> JoinNodes(perms[k])]
    ELSE IF "," \in Range(mission_fragment)
    THEN LET actions == split(mission_fragment, ",")
         IN  [k \in DOMAIN actions |-> Append(actions[k], ":")]
    ELSE <<mission_fragment>>

parse_mission(mission_fragment) ==
    IF "+" \in Range(mission_fragment)
    THEN LET perms == permutations(split(mission_fragment, "+"))
         IN  [k \in DOMAIN perms |-> JoinNodes(perms[k])]
    ELSE IF "_" \in Range(mission_fragment)
    THEN <<JoinNodes(split(mission_fragment, "_"))>>
    ELSE IF "," \in Range(mission_fragment)
    THEN LET actions == split(mission_fragment, ",")
         IN  [k \in DOMAIN actions |-> Append(actions[k], ":")]
    ELSE <<mission_fragment>>

\* position of the first "(" of mission that opens the deepest level
DeepestOpen(mission, max_depth) ==
    CHOOSE j \in DOMAIN mission :
        /\ mission[j] = "(" /\ DepthAt(mission, j) = max_depth
        /\ \A i \in 1 .. (j - 1) :
              ~(mission[i] = "(" /\ DepthAt(mission, i) = max_depth)

\* the strings deconstruct appends to to_process for one mission
Expand(mission, max_depth) ==
    LET j == DeepestOpen(mission, max_depth)
        pre_mission == SubSeq(mission, 1, j - 1)
        after == SubSeq(mission, j + 1, Len(mission))
        r_paren == Find(after, ")")
        post_mission == SubSeq(after, r_paren + 1, Len(after))
        mission_fragment == SubSeq(after, 1, r_paren - 1)
        new_missions == parse_mission(mission_fragment)
    IN  [k \in DOMAIN new_missions |->
            ReplaceColons(pre_mission \o new_missions[k] \o post_mission)]

\* one pass of "while len(to_process) > 0" in deconstruct
deconstruct ==
    /\ pc = "step2"
    /\ exp.to_process # <<>>
    /\ LET mission == Head(exp.to_process)
           max_depth == paren_depth(mission)
       IN  IF Len(exp.to_process) = 1 /\ mission = <<>>
           THEN exp' = [exp EXCEPT !.to_process = <<>>]
           ELSE IF max_depth = 0
           THEN exp' = [exp EXCEPT
                    !.processed = Append(@, IF mission[Len(mission)] # ":"
                                            THEN Append(mission, ":")
                                            ELSE mission),
                    !.to_process = Tail(@)]
           ELSE exp' = [exp EXCEPT
                    !.to_process = Tail(@ \o Expand(mission, max_depth))]
    /\ UNCHANGED <<pc, tsets, missions, enumVars, redVars, asmVars, schedVars>>

TSetMark == " (TSet= "

\* the replacements Step 2 applies to one string returned by deconstruct
CleanItem(item) == Strip(Strip(Strip(ReplaceColons(item), "+"), "("), ")")

RECURSIVE AddMissions(_, _, _, _)
\* "for item in new_mission_paths: ... if item not in missions: missions.append(...)"
AddMissions(ms, new_mission_paths, k, line) ==
    IF k > Len(new_mission_paths) THEN ms
    ELSE LET item == CleanItem(new_mission_paths[k])
         IN  AddMissions(IF item \notin Range(ms)
                         THEN Append(ms, item \o <<TSetMark>> \o line \o <<")">>)
                         ELSE ms,
                         new_mission_paths, k + 1, line)

\* character code of the first character of a token
Code(tok) ==
    CASE tok = TSetMark -> 32
      [] tok = "(" -> 40
      [] tok = ")" -> 41
      [] tok = "+" -> 43
      [] tok = "," -> 44
      [] tok = ":" -> 58
      [] tok = "_" -> 95
      [] OTHER -> 64 + CHOOSE i \in DOMAIN AtomNames : AtomNames[i] = tok

RECURSIVE StrLess(_, _)
\* a < b on strings
StrLess(a, b) ==
    IF b = <<>> THEN FALSE
    ELSE IF a = <<>> THEN TRUE
    ELSE IF Head(a) = Head(b) THEN StrLess(Tail(a), Tail(b))
    ELSE Code(Head(a)) < Code(Head(b))

RECURSIVE sort(_)
\* list.sort()
sort(ms) ==
    IF ms = <<>> THEN <<>>
    ELSE LET i == CHOOSE i \in DOMAIN ms :
                     /\ \A j \in DOMAIN ms : ~StrLess(ms[j], ms[i])
                     /\ \A j \in 1 .. (i - 1) : StrLess(ms[i], ms[j])
         IN  <<ms[i]>> \o sort(RemoveAt(ms, i))

\* Step 2: the strings deconstruct returned for one line are added to
\* missions; after the last line the list is sorted
Step2Line ==
    /\ pc = "step2"
    /\ exp.to_process = <<>>
    /\ LET ms == AddMissions(missions, exp.processed, 1, tsets[exp.line_no])
       IN  IF exp.line_no < Len(tsets)
           THEN /\ missions' = ms
                /\ exp' = [line_no |-> exp.line_no + 1,
                           to_process |-> <<tsets[exp.line_no + 1]>>,
                           processed |-> <<>>]
                /\ pc' = pc
           ELSE /\ missions' = sort(ms)
                /\ exp' = exp
                /\ pc' = "missions"
    /\ UNCHANGED <<tsets, enumVars, redVars, asmVars, schedVars>>

-----------------------------------------------------------------------------
(* Target-set expressions the model draws from                             *)

RECURSIVE Joined(_, _)
\* operands args[1] ops[1] args[2] ops[2] ... args[k]
Joined(args, ops) ==
    IF Len(args) = 1 THEN args[1]
    ELSE args[1] \o <<ops[1]>> \o Joined(Tail(args), Tail(ops))

Group(args, ops) == <<"(">> \o Joined(args, ops) \o <<")">>

SameOp(op, k) == [i \in 1 .. (k - 1) |-> op]

Leaves == {<<a>> : a \in Atoms}

\* one group of atoms joined by one operator
FlatGroups ==
    UNION {{Group(args, SameOp(op, k)) : args \in [1 .. k -> Leaves], op \in Ops} :
           k \in 1 .. MaxOperands}

\* one group of three atoms joined by two different operators
MixedGroups ==
    {Group(args, ops) : args \in [1 .. 3 -> Leaves],
                        ops \in {o \in [1 .. 2 -> Ops] : o[1] # o[2]}}

\* a group of two atoms
Pairs(op) == {Group(args, <<op>>) : args \in [1 .. 2 -> Leaves]}

AllPairs == UNION {Pairs(op) : op \in Ops}

\* a group of two operands, one of them a group of two atoms
NestedGroups ==
    {Group(args, <<op>>) :
        args \in {a \in [1 .. 2 -> Leaves \cup AllPairs] :
                     Cardinality({i \in 1 .. 2 : a[i] \in Leaves}) = 1},
        op \in Ops}

\* a group of two groups of two of the atoms A and B
TwoGroups ==
    LET small == {p \in AllPairs : \A i \in DOMAIN p : p[i] \notin Atoms \ {"A", "B"}}
    IN  {Group(args, <<op>>) : args \in [1 .. 2 -> small], op \in Ops}

\* a group of three operands, one of them an ordered pair
UnitGroups ==
    {Group(args, SameOp(op, 3)) :
        args \in {a \in [1 .. 3 -> Leaves \cup Pairs("_")] :
                     Cardinality({i \in 1 .. 3 : a[i] \notin Leaves}) = 1},
        op \in Ops}

Expressions ==
    FlatGroups \cup MixedGroups \cup NestedGroups \cup TwoGroups \cup UnitGroups

\* a group of at most two atoms
SmallGroups == AllPairs \cup {Group(<<l>>, <<>>) : l \in Leaves}

\* TSets+.txt: one expression, or two groups of at most two atoms
TSetFiles ==
    {<<e>> : e \in Expressions} \cup {<<e1, e2>> : e1, e2 \in SmallGroups}

InitExpand ==
    /\ pc = "step2"
    /\ tsets \in TSetFiles
    /\ exp = [line_no |-> 1, to_process |-> <<tsets[1]>>, processed |-> <<>>]
    /\ missions = <<>>
    /\ EnumIdle
    /\ RedIdle
    /\ AsmIdle
    /\ SchedIdle

NextExpand == deconstruct \/ Step2Line

SpecExpand == InitExpand /\ [][NextExpand]_vars

-----------------------------------------------------------------------------
(* What the specification says a group expands to                          *)

\* an operand is permuted as one unit: an atom <<a>>, or a waypoint sequence
\* <<a, b>> written (a_b); these are the waypoint sequences
PairUnits == [1 .. 2 -> Atoms]

\* the sequence a with the unit u put in at position i
InsertAt(a, i, u) ==
    [j \in 1 .. (Len(a) + 1) |-> IF j < i THEN a[j] ELSE IF j = i THEN u ELSE a[j - 1]]

\* k operands: atoms, with at most one waypoint sequence among them
UnitSeqsOfLen(k) ==
    {[j \in 1 .. k |-> a[j]] : a \in [1 .. k -> Leaves]}
        \cup {InsertAt(a, i, u) : a \in [1 .. (k - 1) -> Leaves], i \in 1 .. k,
                                  u \in PairUnits}

UnitSeqs ==
    UNION {UnitSeqsOfLen(k) : k \in 2 .. MaxOperands}
        \cup {<<u, v>> : u, v \in PairUnits}

RenderUnit(u) ==
    IF Len(u) = 1 THEN u ELSE Group(<< <<u[1]>>, <<u[2]>> >>, <<"_">>)

\* the group written for the operands us joined by op
GroupOf(us, op) ==
    Group([i \in DOMAIN us |-> RenderUnit(us[i])], SameOp(op, Len(us)))

RECURSIVE WaypointString(_)
\* the waypoints w1, ..., wn as the string w1:w2:...:wn:
WaypointString(ws) ==
    IF ws = <<>> THEN <<>> ELSE <<Head(ws), ":">> \o WaypointString(Tail(ws))

\* the mission that visits the units in the order us[p[1]], us[p[2]], ...
MissionOf(us, p) == WaypointString(Concat([i \in DOMAIN us |-> us[p[i]]]))

Orderings(k) == {p \in [1 .. k -> 1 .. k] : \A i, j \in 1 .. k : i # j => p[i] # p[j]}

Identity(k) == [i \in 1 .. k |-> i]

\* deconstruct has returned the missions of line exp.line_no
Returned == pc = "step2" /\ exp.to_process = <<>>

DistinctUnitSeqs ==
    {us \in UnitSeqs : \A i, j \in DOMAIN us : i # j => us[i] # us[j]}

RECURSIVE UnitsFrom(_, _)
\* the operands written in the group l from token i on, each read as a unit
UnitsFrom(l, i) ==
    IF i >= Len(l) THEN <<>>
    ELSE IF l[i] = "(" THEN
        IF i + 4 <= Len(l) THEN << <<l[i + 1], l[i + 3]>> >> \o UnitsFrom(l, i + 6)
        ELSE <<>>
    ELSE << <<l[i]>> >> \o UnitsFrom(l, i + 2)

\* the operands of the line deconstruct has just returned from
LineUnits == UnitsFrom(tsets[exp.line_no], 2)

\* C8: a group of k distinct operands joined by '+' expands to exactly k!
\* missions, one for each permutation of the operands, an operand that is a
\* waypoint sequence being permuted as one unit.
C8_UnorderedAnd ==
    (/\ Returned
     /\ LineUnits \in DistinctUnitSeqs
     /\ tsets[exp.line_no] = GroupOf(LineUnits, "+")) =>
        /\ Len(exp.processed) = Factorial(Len(LineUnits))
        /\ Range(exp.processed) =
               {MissionOf(LineUnits, p) : p \in Orderings(Len(LineUnits))}

\* the six missions of ((A_B)+C+A) have been emitted
C8_Witness ==
    /\ Returned
    /\ tsets[exp.line_no] = GroupOf(<< <<"A", "B">>, <<"C">>, <<"A">> >>, "+")
    /\ Len(exp.processed) = 6
    /\ <<"C", ":", "A", ":", "B", ":", "A", ":">> \in Range(exp.processed)

\* C9: a group joined by '_' expands to exactly one mission, whose waypoints
\* are in the written left-to-right order.
C9_OrderedAnd ==
    (/\ Returned
     /\ LineUnits \in UnitSeqs
     /\ tsets[exp.line_no] = GroupOf(LineUnits, "_")) =>
        exp.processed = <<MissionOf(LineUnits, Identity(Len(LineUnits)))>>

\* the one mission of (B_A_C) has been emitted
C9_Witness ==
    /\ Returned
    /\ tsets[exp.line_no] = GroupOf(<< <<"B">>, <<"A">>, <<"C">> >>, "_")
    /\ exp.processed = << <<"B", ":", "A", ":", "C", ":">> >>

\* the waypoint sequence of an entry of missions
WaypointsOf(entry) == SubSeq(entry, 1, Find(entry, TSetMark) - 1)

\* C10: the mission list built in Step 2 never holds two missions with the
\* same waypoint sequence.
C10_MissionsDeduplicated ==
    pc = "missions" =>
        \A i, j \in DOMAIN missions :
            i # j => WaypointsOf(missions[i]) # WaypointsOf(missions[j])

-----------------------------------------------------------------------------
(* The boolean reading of a target-set expression                          *)

RECURSIVE SplitTopFrom(_, _, _, _)
\* the pieces of e between the tokens of seps that are outside parentheses
SplitTopFrom(e, seps, i, from) ==
    IF i > Len(e) THEN <<SubSeq(e, from, Len(e))>>
    ELSE IF e[i] \in seps /\ DepthAt(e, i) = 0
         THEN <<SubSeq(e, from, i - 1)>> \o SplitTopFrom(e, seps, i + 1, i + 1)
         ELSE SplitTopFrom(e, seps, i + 1, from)

SplitTop(e, seps) == SplitTopFrom(e, seps, 1, 1)

\* the operators of e that are outside parentheses
TopOps(e) == {e[i] : i \in {j \in DOMAIN e : e[j] \in Ops /\ DepthAt(e, j) = 0}}

RECURSIVE InGrammar(_)
\* expr := term (',' term)*, term := factor (('+'|'_') factor)* with one
\* operator per term, factor := NODE_ID | '(' expr ')'
InGrammar(e) ==
    IF e = <<>> THEN FALSE
    ELSE IF "," \in TopOps(e)
    THEN \A t \in Range(SplitTop(e, {","})) : InGrammar(t)
    ELSE IF TopOps(e) = {"+", "_"} THEN FALSE
    ELSE IF TopOps(e) # {}
    THEN \A f \in Range(SplitTop(e, {"+", "_"})) : InGrammar(f)
    ELSE IF Len(e) = 1 THEN e[1] \in Atoms
    ELSE /\ e[1] = "(" /\ e[Len(e)] = ")"
         /\ \A i \in 1 .. (Len(e) - 1) : DepthAt(e, i) > 0
         /\ InGrammar(SubSeq(e, 2, Len(e) - 1))

RECURSIVE Satisfies(_, _)
RECURSIVE OrderedSat(_, _)
\* the waypoint sequence m makes expression e true: a node is true when it
\* is a waypoint of m, ',' is or, '+' is and, '_' is and with the operands
\* satisfied by consecutive parts of m in the written order
Satisfies(e, m) ==
    IF "," \in TopOps(e)
    THEN \E t \in Range(SplitTop(e, {","})) : Satisfies(t, m)
    ELSE IF "+" \in TopOps(e)
    THEN \A f \in Range(SplitTop(e, {"+"})) : Satisfies(f, m)
    ELSE IF "_" \in TopOps(e)
    THEN OrderedSat(SplitTop(e, {"_"}), m)
    ELSE IF Len(e) = 1 THEN e \in Range(m)
    ELSE Satisfies(SubSeq(e, 2, Len(e) - 1), m)

OrderedSat(fs, m) ==
    IF Len(fs) = 1 THEN Satisfies(fs[1], m)
    ELSE \E c \in 0 .. Len(m) :
            /\ Satisfies(fs[1], SubSeq(m, 1, c))
            /\ OrderedSat(Tail(fs), SubSeq(m, c + 1, Len(m)))

\* the waypoints of a string returned by deconstruct, as Step 2 cleans it
MissionWaypoints(item) ==
    SelectSeq(split(CleanItem(item), ":"), LAMBDA w : w # <<>>)

\* the orders that visit some of the nodes once each
SingleVisitOrders ==
    UNION {{m \in [1 .. n -> Leaves] : \A i, j \in 1 .. n : i # j => m[i] # m[j]} :
           n \in 1 .. NAtoms}

\* m satisfies e and stops satisfying it when any one waypoint is left out
MinimallySatisfies(e, m) ==
    /\ Satisfies(e, m)
    /\ \A i \in DOMAIN m : ~Satisfies(e, RemoveAt(m, i))

\* C11: every mission emitted for an expression of the grammar is a sequence
\* of nodes that satisfies the expression, and every single-visit order that
\* satisfies it with no waypoint to spare is emitted.
C11_LogicRoundTrip ==
    (Returned /\ InGrammar(tsets[exp.line_no])) =>
        LET e == tsets[exp.line_no]
            emitted == {MissionWaypoints(exp.processed[k]) : k \in DOMAIN exp.processed}
        IN  /\ \A m \in emitted : Range(m) \subseteq Leaves /\ Satisfies(e, m)
            /\ \A m \in SingleVisitOrders : MinimallySatisfies(e, m) => m \in emitted

-----------------------------------------------------------------------------
(* Mission assembler: Step 3, Step 4 and perm                              *)

MaxOptions == 2       \* paths kept for one leg in the reduced dictionary

RECURSIVE ToStr(_)
\* str(n) of a non-negative integer, as its decimal digits
ToStr(n) == IF n < 10 THEN <<n>> ELSE Append(ToStr(n \div 10), n % 10)

\* str.zfill(width)
zfill(digits, width) ==
    IF Len(digits) >= width THEN digits
    ELSE [k \in 1 .. (width - Len(digits)) |-> 0] \o digits

RECURSIVE ToInt(_)
\* int(...) / float(...) of a string of decimal digits
ToInt(digits) ==
    IF digits = <<>> THEN 0
    ELSE 10 * ToInt(SubSeq(digits, 1, Len(digits) - 1)) + digits[Len(digits)]

\* identifier of node n in node_id
NodeName(n) == IF n = StartNode THEN "start" ELSE AtomNames[n]

\* list2string: "[ttttt,ccc,www], <tool,...,tool>, path" of one reduced path
list2string(this_path, this_data) ==
    [values |-> <<zfill(ToStr(this_data.time), 5),
                  zfill(ToStr(this_data.consum), 3),
                  zfill(ToStr(this_data.weight), 3)>>,
     tools  |-> [k \in ToolIdx |-> zfill(ToStr(this_data.tools[k]), 3)],
     path   |-> [k \in DOMAIN this_path |-> NodeName(this_path[k])]]

\* new_values that keeps the larger figure of the two legs
new_values_max(values1, values2) ==
    <<zfill(ToStr(Max2(ToInt(values1[1]), ToInt(values2[1]))), 5),
      zfill(ToStr(Max2(ToInt(values1[2]), ToInt(values2[2]))), 3),
      zfill(ToStr(Max2(ToInt(values1[3]), ToInt(values2[3]))), 3)>>

\* "[" + "{:.0f}".format(new_ET).zfill(5) + "," + ... + "] " of perm
new_values(values1, values2) ==
    <<zfill(ToStr(ToInt(values1[1]) + ToInt(values2[1])), 5),
      zfill(ToStr(ToInt(values1[2]) + ToInt(values2[2])), 3),
      zfill(ToStr(ToInt(values1[3]) + ToInt(values2[3])), 3)>>

\* "if new_ET > t or new_consum > c or new_nonconsum > nc: valid = False"
WithinLimits(values) ==
    ~(\/ ToInt(values[1]) > setup.max_time
      \/ ToInt(values[2]) > setup.max_consumables
      \/ ToInt(values[3]) > setup.max_weight)

\* the loop "for i in range(0, len(toolvalues1) - 1)" of perm
new_toolstring(toolvalues1, toolvalues2) ==
    [k \in ToolIdx |->
        IF k < NTools - 1 /\ ToInt(toolvalues1[k]) > ToInt(toolvalues2[k])
        THEN toolvalues1[k] ELSE toolvalues2[k]]

\* path2 + path1 without the first node of path1
new_items(path1, path2) == path2 \o Tail(path1)

\* the string perm builds from item2 (earlier legs) and item1 (later legs)
Combined(item1, item2) ==
    [values |-> new_values(item1.values, item2.values),
     tools  |-> new_toolstring(item1.tools, item2.tools),
     path   |-> new_items(item1.path, item2.path)]

\* the strings of "for item2 in list2: for item1 in list1", in loop order
AllCombined(list1, list2) ==
    [k \in 1 .. (Len(list1) * Len(list2)) |->
        Combined(list1[((k - 1) % Len(list1)) + 1],
                 list2[((k - 1) \div Len(list1)) + 1])]

\* an emptiness test that looks at the first segment list only
HasEmptyFirstSegment(scenario) == scenario # <<>> /\ scenario[1] = <<>>

\* "for x in range(0, n): if not result[x]" finds an empty segment list
HasEmptySegment(scenario) == \E x \in DOMAIN scenario : scenario[x] = <<>>

\* eval_segments.get(this_key, [])
SegmentOptions(this_key) ==
    IF this_key \in DOMAIN eval_segments THEN eval_segments[this_key] ELSE <<>>

\* the nodes of a mission entry that Step 3 walks: up to the first empty one
TsetPathNodes(item) ==
    LET nodes == split(SubSeq(item, 1, Find(item, TSetMark) - 1), ":")
        stop == IF \E k \in DOMAIN nodes : nodes[k] = <<>>
                THEN CHOOSE k \in DOMAIN nodes :
                        nodes[k] = <<>> /\ \A j \in 1 .. (k - 1) : nodes[j] # <<>>
                ELSE Len(nodes) + 1
    IN  [k \in 1 .. (stop - 1) |-> nodes[k][1]]

\* the leg keys last_node + "-" + node of a mission entry
LegKeys(item) ==
    LET nodes == TsetPathNodes(item)
    IN  [k \in DOMAIN nodes |-> <<IF k = 1 THEN "start" ELSE nodes[k - 1], nodes[k]>>]

\* Step 3: route_list gets the path options of every leg of every mission
Step3 ==
    /\ pc = "step3"
    /\ route_list' = [m \in DOMAIN missions |->
                         LET keys == LegKeys(missions[m])
                         IN  [k \in DOMAIN keys |-> SegmentOptions(keys[k])]]
    /\ pc' = "step4"
    /\ UNCHANGED <<setup, eval_segments, mission_count, result, scenarios, invalid,
                   paths_out, enumVars, redVars, expVars, schedVars>>

\* Step 4 hands the next mission to perm; perm returns [] at once when a
\* segment list is empty
Step4Mission ==
    /\ pc = "step4"
    /\ mission_count < Len(route_list)
    /\ mission_count' = mission_count + 1
    /\ LET scenario == route_list[mission_count + 1]
       IN  IF HasEmptySegment(scenario)
           THEN /\ result' = <<>>
                /\ pc' = "step4"
           ELSE IF scenario = <<>> \/ scenario[Len(scenario)] = <<>>
           THEN /\ result' = scenario
                /\ pc' = "crashed"
           ELSE /\ result' = scenario
                /\ pc' = "perm"
    /\ UNCHANGED <<setup, eval_segments, route_list, scenarios, invalid, paths_out,
                   enumVars, redVars, expVars, schedVars>>

\* one pass of "while n > 1" of perm: the last two lists are combined
perm ==
    /\ pc = "perm"
    /\ Len(result) > 1
    /\ LET n == Len(result)
           all == AllCombined(result[n], result[n - 1])
           new_list == SelectSeq(all, LAMBDA x : WithinLimits(x.values))
       IN  /\ result' = Append(SubSeq(result, 1, n - 2), new_list)
           /\ invalid' = invalid \o SelectSeq(all, LAMBDA x : ~WithinLimits(x.values))
    /\ UNCHANGED <<pc, setup, eval_segments, route_list, mission_count, scenarios,
                   paths_out, enumVars, redVars, expVars, schedVars>>

\* perm returns; Step 4 appends its lists to scenarios and mission_id
PermReturn ==
    /\ pc = "perm"
    /\ Len(result) <= 1
    /\ scenarios' = scenarios \o [k \in DOMAIN result |->
                                     [mission_id |-> mission_count, list_x |-> result[k]]]
    /\ result' = <<>>
    /\ pc' = "step4"
    /\ UNCHANGED <<setup, eval_segments, route_list, mission_count, invalid, paths_out,
                   enumVars, redVars, expVars, schedVars>>

RECURSIVE Flatten(_)
Flatten(lists) == IF lists = <<>> THEN <<>> ELSE Head(lists) \o Flatten(Tail(lists))

\* Step 4 writes the strings of all scenarios to Valid_Paths.txt
Step4Write ==
    /\ pc = "step4"
    /\ mission_count = Len(route_list)
    /\ paths_out' = Flatten([k \in DOMAIN scenarios |-> scenarios[k].list_x])
    /\ pc' = "assembled"
    /\ UNCHANGED <<setup, eval_segments, route_list, mission_count, result, scenarios,
                   invalid, enumVars, redVars, expVars, schedVars>>

-----------------------------------------------------------------------------
(* Inputs of the assembler                                                 *)

\* every node of one material, or steel and concrete in turn
AsmMaterials ==
    {[n \in TNodes |-> m] : m \in {"steel", "conc"}}
        \cup {[n \in TNodes |-> IF n % 2 = 1 THEN "steel" ELSE "conc"]}

\* a chain start -> 1 -> 2 -> ..., alone or with the shortcuts n -> n + 2
AsmGraphs == {{e \in CandEdges : e[2] = e[1] + 1},
              {e \in CandEdges : e[2] - e[1] \in {1, 2}}}

AsmBudgets == {[max_time |-> 400, max_consumables |-> 100, max_weight |-> 100],
               [max_time |-> 400, max_consumables |-> 100, max_weight |-> 37],
               [max_time |-> 200, max_consumables |-> 5, max_weight |-> 50]}

\* the admissible paths the enumerator records for the key (s, d)
EnumeratedData(E, matl, b, s, d) ==
    LET br == get_all_breaches(matl)
        dp == [g |-> load_g_from_file([e \in E |-> 11]),
               nameLen |-> [n \in Nodes |-> IF n = StartNode THEN 5 ELSE 2],
               node_time |-> br.node_time,
               node_consum |-> br.node_consum,
               node_tools |-> br.node_tools,
               max_time |-> b.max_time,
               max_consumables |-> b.max_consumables,
               max_weight |-> b.max_weight,
               start |-> s,
               dest |-> d]
    IN  print_all_paths_util(s, d, {}, <<>>, [paths |-> <<>>, data |-> <<>>], dp).data

\* the mission entry Step 2 makes of the line (w1_w2_..._wk)
MissionEntry(ws) ==
    LET names == [k \in DOMAIN ws |-> <<NodeName(ws[k])>>]
    IN  WaypointString([k \in DOMAIN ws |-> NodeName(ws[k])])
            \o <<TSetMark>> \o Group(names, SameOp("_", Len(ws))) \o <<")">>

\* waypoints a, a+1, ..., a+k-1
Run(a, k) == [j \in 1 .. k |-> a + j - 1]

\* one mission, or the mission and the one-leg mission to its last waypoint
MissionLists ==
    UNION {{<<Run(a, k)>>}
               \cup (IF k > 1 THEN {<<Run(a, k), <<a + k - 1>> >>} ELSE {}) :
           a \in TNodes, k \in 1 .. (NNodes - 1)}

KeysOf(ml) ==
    UNION {{<<IF j = 1 THEN StartNode ELSE ml[m][j - 1], ml[m][j]>> : j \in DOMAIN ml[m]} :
           m \in DOMAIN ml}

\* the keys a mission of the model can need
AsmKeys == {key \in Nodes \X TNodes : key[1] < key[2]}

\* for every graph, material map and budget the model draws from: the budget
\* and, for every key, the strings of the paths the enumerator records
SegmentTables ==
    {[limits |-> b,
      segs   |-> {[key |-> key,
                   strings |-> LET data == EnumeratedData(E, matl, b, key[1], key[2])
                               IN  [k \in DOMAIN data |->
                                       list2string(data[k].path, data[k])]] :
                  key \in AsmKeys}] :
     E \in AsmGraphs, matl \in AsmMaterials, b \in AsmBudgets}

InitAssemble ==
    /\ pc = "step3"
    /\ \E ml \in {l \in MissionLists : \A m \in DOMAIN l : l[m][Len(l[m])] < NNodes} :
          /\ missions = sort([m \in DOMAIN ml |-> MissionEntry(ml[m])])
          /\ \E t \in SegmentTables, keep \in [KeysOf(ml) -> -1 .. MaxOptions] :
                /\ setup = t.limits
                /\ eval_segments =
                      [nk \in {<<NodeName(key[1]), NodeName(key[2])>> :
                                  key \in {x \in KeysOf(ml) : keep[x] >= 0}} |->
                          LET seg == CHOOSE x \in t.segs :
                                        nk = <<NodeName(x.key[1]), NodeName(x.key[2])>>
                          IN  SubSeq(seg.strings, 1, Min2(keep[seg.key], Len(seg.strings)))]
    /\ route_list = <<>>
    /\ mission_count = 0
    /\ result = <<>>
    /\ scenarios = <<>>
    /\ invalid = <<>>
    /\ paths_out = <<>>
    /\ tsets = <<>>
    /\ exp = NoExp
    /\ EnumIdle
    /\ RedIdle
    /\ SchedIdle

NextAssemble == Step3 \/ Step4Mission \/ perm \/ PermReturn \/ Step4Write

SpecAssemble == InitAssemble /\ [][NextAssemble]_vars

-----------------------------------------------------------------------------
(* Claims about the assembler                                              *)

\* the strings one pass of perm adds to its new list or to Invalid_Paths.txt
\* for the pair item2 = P, item1 = Q
StringsMade(P, Q) ==
    {R \in Range(result'[Len(result) - 1])
           \cup Range(SubSeq(invalid', Len(invalid) + 1, Len(invalid'))) :
        R.path = P.path \o Tail(Q.path)}

\* sum over the tools of the larger of the two weights
SumOfMax(toolsP, toolsQ) ==
    SumTo([k \in ToolIdx |-> Max2(ToInt(toolsP[k]), ToInt(toolsQ[k]))], 0, NTools - 1)

\* C12: every string perm makes of a first-part path P and a second-part
\* path Q carries, as the total weight it checked against max_weight, the
\* combined consumable plus the sum over the tools of max(P.tool, Q.tool).
C12_CombinedWeight ==
    [][(pc = "perm" /\ Len(result) > 1) =>
          \A P \in Range(result[Len(result) - 1]), Q \in Range(result[Len(result)]) :
              /\ StringsMade(P, Q) # {}
              /\ \A R \in StringsMade(P, Q) :
                    ToInt(R.values[3]) =
                        ToInt(R.values[2]) + SumOfMax(P.tools, Q.tools)]_vars

RECURSIVE Choices(_)
\* every choice of one string per leg
Choices(legs) ==
    IF legs = <<>> THEN {<<>>}
    ELSE {<<x>> \o r : x \in Range(Head(legs)), r \in Choices(Tail(legs))}

RECURSIVE JoinPaths(_)
\* the paths of the chosen strings, each junction node written once
JoinPaths(ch) ==
    IF Len(ch) = 1 THEN ch[1].path ELSE ch[1].path \o Tail(JoinPaths(Tail(ch)))

RECURSIVE SumValues(_, _)
\* sum over the chosen strings of their v-th figure
SumValues(ch, v) ==
    IF ch = <<>> THEN 0 ELSE ToInt(ch[1].values[v]) + SumValues(Tail(ch), v)

RECURSIVE LargestTool(_, _)
LargestTool(ch, k) ==
    IF ch = <<>> THEN 0 ELSE Max2(ToInt(ch[1].tools[k]), LargestTool(Tail(ch), k))

\* total_consumable + sum of the merged tool weights of the chosen strings
CombinedWeight(ch) ==
    SumValues(ch, 2) + SumTo([k \in ToolIdx |-> LargestTool(ch, k)], 0, NTools - 1)

WithinBudgets(ch) ==
    /\ SumValues(ch, 1) <= setup.max_time
    /\ SumValues(ch, 2) <= setup.max_consumables
    /\ CombinedWeight(ch) <= setup.max_weight

\* the valid strings Step 4 holds for mission m
ValidOf(m) ==
    UNION {Range(scenarios[k].list_x) :
           k \in {j \in DOMAIN scenarios : scenarios[j].mission_id = m}}

\* the choice made of the legs j, ..., n only
Suffix(ch, j) == SubSeq(ch, j, Len(ch))

\* C13: for a mission of two or more legs, every choice of one path per leg
\* reaches exactly one sink: the valid output if and only if its combined
\* time, consumable and weight are within the budgets, otherwise the invalid
\* sink, as the whole combination or as the right-hand part that first
\* exceeded a budget.
C13_ExactlyOneSink ==
    pc = "assembled" =>
        \A m \in DOMAIN route_list :
            Len(route_list[m]) >= 2 =>
                \A ch \in Choices(route_list[m]) :
                    LET inValid == \E x \in ValidOf(m) : x.path = JoinPaths(ch)
                        inInvalid ==
                            \E x \in Range(invalid), j \in 1 .. (Len(ch) - 1) :
                                x.path = JoinPaths(Suffix(ch, j))
                    IN  /\ inValid <=> WithinBudgets(ch)
                        /\ inValid <=> ~inInvalid

\* C14: every assembled path carries as total_time the sum of the total_time
\* of its per-leg paths and as total_consumable the sum of their
\* total_consumable, nothing being deducted at the seams.
C14_SumsOfLegs ==
    pc = "assembled" =>
        \A m \in DOMAIN route_list :
            /\ \A x \in ValidOf(m) :
                  \E ch \in Choices(route_list[m]) : x.path = JoinPaths(ch)
            /\ \A ch \in Choices(route_list[m]) :
                  \A j \in 1 .. (Len(ch) - 1) :
                      \A x \in (IF j = 1 THEN ValidOf(m) ELSE {}) \cup Range(invalid) :
                          x.path = JoinPaths(Suffix(ch, j)) =>
                              /\ ToInt(x.values[1]) = SumValues(Suffix(ch, j), 1)
                              /\ ToInt(x.values[2]) = SumValues(Suffix(ch, j), 2)

\* start-A-B-C is assembled from three legs over concrete nodes (50 s, 5 lb
\* each): node A is charged by the legs start-A and A-B, node B by the legs
\* A-B and B-C
C14_Witness ==
    /\ pc = "assembled"
    /\ \E x \in Range(paths_out) :
          /\ x.path = <<"start", "A", "B", "C">>
          /\ ToInt(x.values[1]) = 250
          /\ ToInt(x.values[2]) = 25

\* scenario A: the one edge start -> A, node A of steel (100 s, 10 lb, one
\* tool of 5 lb), logic (A); scenario E gives it max_consumables = 5
ScenarioE_limits == [max_time |-> 200, max_consumables |-> 5, max_weight |-> 50]

ScenarioE_segments ==
    LET data == EnumeratedData({<<StartNode, 1>>}, [n \in TNodes |-> "steel"],
                               ScenarioE_limits, StartNode, 1)
    IN  [nk \in {<<"start", "A">>} |->
            [k \in DOMAIN data |-> list2string(data[k].path, data[k])]]

\* C15: in scenario E the run ends with no valid path and exactly one entry
\* in the invalid sink.
C15_BudgetOverflow ==
    (/\ pc = "assembled"
     /\ missions = <<MissionEntry(<<1>>)>>
     /\ setup = ScenarioE_limits
     /\ eval_segments = ScenarioE_segments) =>
        /\ paths_out = <<>>
        /\ Len(invalid) = 1

\* a leg of mission m has no entry, or an empty entry, in eval_segments
MissingLeg(m) ==
    \E key \in Range(LegKeys(missions[m])) :
        key \notin DOMAIN eval_segments \/ eval_segments[key] = <<>>

\* every right-hand part of the choice is within the limits perm applies
PartsWithinLimits(ch) ==
    \A j \in 1 .. (Len(ch) - 1) :
        /\ SumValues(Suffix(ch, j), 1) <= setup.max_time
        /\ SumValues(Suffix(ch, j), 2) <= setup.max_consumables
        /\ SumValues(Suffix(ch, j), 3) <= setup.max_weight

\* C16: the run never aborts in the assembler; a mission with a missing or
\* empty leg gets no assembled path and nothing in the valid output, and
\* every other mission is still assembled.
C16_MissingLeg ==
    /\ pc # "crashed"
    /\ pc = "assembled" =>
          \A m \in DOMAIN missions :
              IF MissingLeg(m)
              THEN /\ \A k \in DOMAIN scenarios : scenarios[k].mission_id # m
                   /\ Range(paths_out) =
                         UNION {ValidOf(m2) :
                                m2 \in {j \in DOMAIN missions : ~MissingLeg(j)}}
              ELSE /\ \E k \in DOMAIN scenarios : scenarios[k].mission_id = m
                   /\ \A ch \in Choices(route_list[m]) :
                         PartsWithinLimits(ch) =>
                             \E x \in ValidOf(m) \cap Range(paths_out) :
                                 x.path = JoinPaths(ch)

\* mission A:B has no path for its leg A-B and is handed to perm first; the
\* mission B that follows it is assembled and written
C16_Witness ==
    /\ pc = "assembled"
    /\ Len(missions) = 2
    /\ TsetPathNodes(missions[1]) = <<"A", "B">>
    /\ <<"start", "A">> \in DOMAIN eval_segments
    /\ eval_segments[<<"start", "A">>] # <<>>
    /\ <<"A", "B">> \notin DOMAIN eval_segments
    /\ ValidOf(1) = {}
    /\ ValidOf(2) # {}
    /\ Range(paths_out) = ValidOf(2)

-----------------------------------------------------------------------------
(* Step 1A scheduler: the coordinator's queue loop of generate_paths and   *)
(* the worker processes (print_all_paths / save_this_data).                *)
(*                                                                         *)
(* A segment "k1:k2" is the token sequence <<k1, ":", k2>>; a file name is *)
(* a token sequence too.  A file on disk is a record: its name, the        *)
(* segment whose enumeration it holds and whether the writer has closed    *)
(* it.  The coordinator and each worker take one step at a time; the two   *)
(* manager lists are shared between them.                                  *)

MaxProcs == 3         \* largest os.cpu_count() - n_reserved
MaxKills == 1         \* times the whole run is killed and started again

\* str.replace(a, b) for one-token a and b
Replace(str, a, b) == [k \in DOMAIN str |-> IF str[k] = a THEN b ELSE str[k]]

\* list.remove(x): the first occurrence goes
RemoveFirst(list, x) == RemoveAt(list, Find(list, x))

\* f_pathdata of the coordinator
PathDataName(my_segment) ==
    <<"Path_Files\\PathData_">> \o Replace(my_segment, ":", "_") \o <<".txt">>

\* f_paths of the coordinator
PathsName(my_segment) ==
    <<"Path_Files\\Paths_">> \o Replace(my_segment, ":", "_") \o <<".txt">>

\* f1 of save_this_data, as a worker that writes under the final name
FinalName(this_key) == PathDataName(this_key)

\* f1 of save_this_data
WorkingName(this_key) ==
    <<"working_pathdata_">> \o Replace(this_key, ":", "-") \o <<".txt">>

\* k of the resume loop: the segment a PathData_ file name stands for
SegmentOfFile(existingfilename) ==
    Replace(SubSeq(existingfilename, 2, Len(existingfilename) - 1), "_", ":")

IsWorkingFile(f) == f.name[1] = "working_pathdata_"
IsPathDataFile(f) == f.name[1] = "Path_Files\\PathData_"

RECURSIVE NeededFrom(_, _, _)
\* needed_connections: for each target "start:node1", then node1:node2 for
\* every other target, in this order
NeededFrom(targets, n1, n2) ==
    IF n1 > Len(targets) THEN <<>>
    ELSE IF n2 > Len(targets) THEN NeededFrom(targets, n1 + 1, 0)
    ELSE IF n2 = 0
         THEN <<<<"start", ":", targets[n1]>>>> \o NeededFrom(targets, n1, 1)
         ELSE (IF targets[n1] # targets[n2]
               THEN <<<<targets[n1], ":", targets[n2]>>>>
               ELSE <<>>) \o NeededFrom(targets, n1, n2 + 1)

needed_connections(targets) == NeededFrom(targets, 1, 0)

\* the elements of list at the positions in idx, in their order
AtPositions(list, idx) ==
    LET pos == SetToSortedSeq(idx) IN [k \in DOMAIN pos |-> list[pos[k]]]

\* the files left after 'for f in glob.glob("working_path*.txt"): os.remove(f)'
KeptFiles(found) == {f \in found : ~IsWorkingFile(f)}

\* the segments of the PathData_ files that os.listdir finds
ExistingSegments(kept) ==
    {SegmentOfFile(f.name) : f \in {x \in kept : IsPathDataFile(x)}}

\* the resume loop and the queue build: for every PathData_ file
\* needed_connections.remove(k) takes the first occurrence of its segment
\* off the list, and raises when there is none, and the file is announced in
\* ready4dict; what is left of the list is queued unless it is in
\* already_scanned
Resume(needed, existing, already_scanned) ==
    LET haveAt == {k \in DOMAIN needed :
                      /\ needed[k] \in existing
                      /\ \A j \in 1 .. (k - 1) : needed[j] # needed[k]}
        have == AtPositions(needed, haveAt)
        left == AtPositions(needed, DOMAIN needed \ haveAt)
        raised == \E k \in existing : k \notin Range(needed)
    IN  [raised |-> raised,
         ready4dict |-> IF raised THEN <<>>
                        ELSE [k \in DOMAIN have |-> PathDataName(have[k])],
         queue |-> IF raised THEN <<>>
                   ELSE SelectSeq(left, LAMBDA k : k \notin already_scanned)]

\* startup of generate_paths up to the queue loop, on the disk it finds and
\* with no pickle to load
Startup(found, targets, nproc, kills) ==
    LET kept == KeptFiles(found)
        r == Resume(needed_connections(targets), ExistingSegments(kept), {})
    IN  /\ disk' = kept
        /\ n_processors' = nproc
        /\ queue' = r.queue
        /\ working' = <<>>
        /\ ready4dict' = r.ready4dict
        /\ workers' = <<>>
        /\ to_process' = {}
        /\ coord' = [at |-> IF r.raised THEN "crashed" ELSE "while",
                     i |-> 0, file4 |-> TRUE, kills |-> kills,
                     TSet_targets |-> targets,
                     removed |-> {f.name : f \in found \ kept},
                     existing |-> Len(r.ready4dict), log |-> {},
                     tasks |-> <<>>]

\* the name the model gives to a spawned process: its segment and 1, or 2
\* and so on while processes spawned for the same segment are running
NewPid(my_segment) ==
    LET n == CHOOSE n \in 1 .. (Cardinality(DOMAIN workers) + 1) :
                 /\ <<my_segment, n>> \notin DOMAIN workers
                 /\ \A q \in 1 .. (n - 1) : <<my_segment, q>> \in DOMAIN workers
    IN  <<my_segment, n>>

\* task.start() for the segment: tasks counts the processes started for it
Started(tasks, my_segment) ==
    IF my_segment \in DOMAIN tasks
    THEN [tasks EXCEPT ![my_segment] = @ + 1]
    ELSE tasks @@ (my_segment :> 1)

\* while queue or working:
WhileTest ==
    /\ pc = "step1a"
    /\ coord.at = "while"
    /\ coord' = IF queue # <<>> \/ working # <<>>
                THEN [coord EXCEPT !.at = "for", !.i = 1]
                ELSE [coord EXCEPT !.at = "exit"]
    /\ UNCHANGED <<pc, n_processors, node_id, queue, working, ready4dict, workers,
                   disk, to_process, enumVars, redVars, expVars, asmVars>>

\* one pass of 'for my_segment in queue:'; the list iterator keeps its index
\* while queue.remove shortens the list
ForStep ==
    /\ pc = "step1a"
    /\ coord.at = "for"
    /\ IF coord.i > Len(queue)
       THEN /\ coord' = [coord EXCEPT !.at = "while"]
            /\ UNCHANGED <<queue, working, workers>>
       ELSE LET my_segment == queue[coord.i]
                f_pathdata == PathDataName(my_segment)
                dash == Find(my_segment, ":")
                k1 == my_segment[dash - 1]
                k2 == my_segment[dash + 1]
            IN  IF Len(working) < n_processors - 1
                THEN /\ working' = Append(working, f_pathdata)
                     /\ IF k1 \in Range(node_id) /\ k2 \in Range(node_id)
                        THEN /\ workers' = workers @@
                                   (NewPid(my_segment) :>
                                       [at |-> "run",
                                        start |-> Find(node_id, k1),
                                        dest |-> Find(node_id, k2),
                                        paths_filename |-> PathsName(my_segment),
                                        pathdata_filename |-> f_pathdata])
                             /\ queue' = RemoveFirst(queue, my_segment)
                             /\ coord' = [coord EXCEPT
                                            !.i = @ + 1, !.file4 = FALSE,
                                            !.tasks = Started(@, my_segment)]
                        ELSE /\ coord' = [coord EXCEPT
                                            !.i = @ + 1, !.file4 = FALSE,
                                            !.log = @ \cup ({k1, k2} \ Range(node_id))]
                             /\ UNCHANGED <<queue, workers>>
                ELSE /\ coord' = [coord EXCEPT !.i = @ + 1, !.file4 = FALSE]
                     /\ UNCHANGED <<queue, working, workers>>
    /\ UNCHANGED <<pc, n_processors, node_id, ready4dict, disk, to_process,
                   enumVars, redVars, expVars, asmVars>>

\* Step 1B starts: no pickle was loaded, and the PathData_ files found by
\* glob are the ones reduced; the model of Step 1A ends here
Step1B ==
    /\ pc = "step1a"
    /\ coord.at = "exit"
    /\ to_process' = {f \in disk : IsPathDataFile(f)}
    /\ coord' = [coord EXCEPT !.at = "done"]
    /\ pc' = "step1b"
    /\ UNCHANGED <<n_processors, node_id, queue, working, ready4dict, workers,
                   disk, enumVars, redVars, expVars, asmVars>>

this_key(w) == <<node_id[w.start], ":", node_id[w.dest]>>

WorkerGoes(w, to) == workers' = [workers EXCEPT ![w].at = to]

\* another worker holds the same working_ file open for writing
OpenElsewhere(w) ==
    \E w2 \in DOMAIN workers \ {w} :
        workers[w2].at = "open" /\ this_key(workers[w2]) = this_key(workers[w])

\* the worker has enumerated its segment; save_this_data opens f1 for
\* writing, which empties a file of that name
save_open(w) ==
    /\ pc = "step1a"
    /\ workers[w].at = "run"
    /\ disk' = {f \in disk : f.name # WorkingName(this_key(workers[w]))}
                 \cup {[name |-> WorkingName(this_key(workers[w])),
                        segment |-> this_key(workers[w]), closed |-> FALSE]}
    /\ WorkerGoes(w, "open")
    /\ UNCHANGED <<pc, n_processors, node_id, queue, working, ready4dict, coord,
                   to_process, enumVars, redVars, expVars, asmVars>>

\* every line is written and f1 is closed
save_close(w) ==
    /\ pc = "step1a"
    /\ workers[w].at = "open"
    /\ disk' = {IF f.name = WorkingName(this_key(workers[w]))
                THEN [f EXCEPT !.closed = ~OpenElsewhere(w)] ELSE f : f \in disk}
    /\ WorkerGoes(w, "closed")
    /\ UNCHANGED <<pc, n_processors, node_id, queue, working, ready4dict, coord,
                   to_process, enumVars, redVars, expVars, asmVars>>

\* a worker that leaves ready4dict as it is
save_append_skipped(w) ==
    /\ pc = "step1a"
    /\ workers[w].at = "closed"
    /\ WorkerGoes(w, "appended")
    /\ UNCHANGED <<pc, n_processors, node_id, queue, working, ready4dict, coord,
                   disk, to_process, enumVars, redVars, expVars, asmVars>>

\* ready4dict.append(pathdata_file)
save_append(w) ==
    /\ pc = "step1a"
    /\ workers[w].at = "closed"
    /\ ready4dict' = Append(ready4dict, workers[w].pathdata_filename)
    /\ WorkerGoes(w, "appended")
    /\ UNCHANGED <<pc, n_processors, node_id, queue, working, coord, disk,
                   to_process, enumVars, redVars, expVars, asmVars>>

\* working.remove(pathdata_file)
save_remove(w) ==
    /\ pc = "step1a"
    /\ workers[w].at = "appended"
    /\ working' = RemoveFirst(working, workers[w].pathdata_filename)
    /\ WorkerGoes(w, "removed")
    /\ UNCHANGED <<pc, n_processors, node_id, queue, ready4dict, coord, disk,
                   to_process, enumVars, redVars, expVars, asmVars>>

\* a worker that renames f1 while it is still writing it
save_rename_unclosed(w) ==
    /\ pc = "step1a"
    /\ workers[w].at = "open"
    /\ disk' = {IF f.name = WorkingName(this_key(workers[w]))
                THEN [f EXCEPT !.name = workers[w].pathdata_filename] ELSE f :
                f \in disk}
    /\ workers' = [k \in DOMAIN workers \ {w} |-> workers[k]]
    /\ UNCHANGED <<pc, n_processors, node_id, queue, working, ready4dict, coord,
                   to_process, enumVars, redVars, expVars, asmVars>>

\* os.rename(f1, pathdata_file) and the worker process ends; the rename
\* raises, and leaves the disk as it is, when f1 is gone, is open in another
\* process or pathdata_file exists
save_rename(w) ==
    /\ pc = "step1a"
    /\ workers[w].at = "removed"
    /\ LET f1 == WorkingName(this_key(workers[w]))
           dst == workers[w].pathdata_filename
       IN  IF /\ \E f \in disk : f.name = f1 /\ f.closed
              /\ ~\E f \in disk : f.name = dst
           THEN disk' = {IF f.name = f1 THEN [f EXCEPT !.name = dst] ELSE f :
                         f \in disk}
           ELSE disk' = disk
    /\ workers' = [k \in DOMAIN workers \ {w} |-> workers[k]]
    /\ UNCHANGED <<pc, n_processors, node_id, queue, working, ready4dict, coord,
                   to_process, enumVars, redVars, expVars, asmVars>>

\* one worker process dies, wherever it is; what it wrote stays on disk
Crash(w) ==
    /\ pc = "step1a"
    /\ w \in DOMAIN workers
    /\ workers' = [k \in DOMAIN workers \ {w} |-> workers[k]]
    /\ UNCHANGED <<pc, n_processors, node_id, queue, working, ready4dict, coord,
                   disk, to_process, enumVars, redVars, expVars, asmVars>>

\* the coordinator and every worker are killed during Step 1A; the manager
\* lists go with them, the files stay
Kill ==
    /\ pc = "step1a"
    /\ coord.at \in {"while", "for"}
    /\ coord.kills < MaxKills
    /\ coord' = [coord EXCEPT !.at = "killed", !.kills = @ + 1]
    /\ workers' = <<>>
    /\ queue' = <<>>
    /\ working' = <<>>
    /\ ready4dict' = <<>>
    /\ UNCHANGED <<pc, n_processors, node_id, disk, to_process,
                   enumVars, redVars, expVars, asmVars>>

\* the run is started again with the same inputs
Restart ==
    /\ pc = "step1a"
    /\ coord.at = "killed"
    /\ Startup(disk, coord.TSet_targets, n_processors, coord.kills)
    /\ UNCHANGED <<pc, node_id, enumVars, redVars, expVars, asmVars>>

\* the sorted target lists of TSets+.txt the model draws from; X is no node
TargetLists == {<<"A">>, <<"A", "X">>, <<"X">>, <<"A", "start">>}

\* every segment a run of the model can need
Segments == UNION {Range(needed_connections(targets)) : targets \in TargetLists}

InitSched ==
    /\ pc = "step1a"
    /\ node_id = <<"start", "A", "B">>
    /\ \E targets \in TargetLists, nproc \in 0 .. MaxProcs :
          /\ n_processors = nproc
          /\ queue = needed_connections(targets)
          /\ coord = [at |-> "while", i |-> 0, file4 |-> TRUE, kills |-> 0,
                      TSet_targets |-> targets, removed |-> {}, existing |-> 0,
                      log |-> {}, tasks |-> <<>>]
    /\ working = <<>>
    /\ ready4dict = <<>>
    /\ workers = <<>>
    /\ disk = {}
    /\ to_process = {}
    /\ EnumIdle
    /\ RedIdle
    /\ ExpIdle
    /\ AsmIdle

Coordinator == WhileTest \/ ForStep \/ Step1B

Worker(w) ==
    /\ w \in DOMAIN workers
    /\ \/ save_open(w)
       \/ save_close(w)
       \/ save_append(w)
       \/ save_remove(w)
       \/ save_rename(w)

NextRun ==
    \/ WhileTest
    \/ ForStep
    \/ Step1B
    \/ \E w \in DOMAIN workers : save_open(w)
    \/ \E w \in DOMAIN workers : save_close(w)
    \/ \E w \in DOMAIN workers : save_append(w)
    \/ \E w \in DOMAIN workers : save_remove(w)
    \/ \E w \in DOMAIN workers : save_rename(w)

NextSched == NextRun \/ Kill \/ Restart

SpecSched == InitSched /\ [][NextSched]_vars

NextCrash == NextRun \/ \E w \in DOMAIN workers : Crash(w)

\* the run with workers that can die one by one
SpecCrash == InitSched /\ [][NextCrash]_vars

\* the coordinator keeps running and every spawned worker runs to its end
SpecSchedFair ==
    /\ InitSched
    /\ [][NextRun]_vars
    /\ WF_vars(Coordinator)
    /\ \A w \in Segments \X (1 .. MaxProcs) : WF_vars(Worker(w))

-----------------------------------------------------------------------------
(* Claims about the scheduler                                              *)

\* both endpoints of the segment are nodes of the graph
Known(seg) == seg[1] \in Range(node_id) /\ seg[3] \in Range(node_id)

\* the coordinator has left the queue loop with nothing waiting or working
LoopEnded == coord.at \in {"exit", "done"} /\ queue = <<>> /\ working = <<>>

\* C17: whatever os.cpu_count() - n_reserved is, when every needed segment
\* joins two nodes of the graph and every spawned worker finishes, the queue
\* loop ends with waiting and working empty and every segment dispatched.
C17_Terminates ==
    (\A seg \in Range(queue) : Known(seg)) =>
        <>(/\ LoopEnded
           /\ \A seg \in Range(needed_connections(coord.TSet_targets)) :
                 PathDataName(seg) \in Range(ready4dict))

\* C18: a needed segment with an endpoint that is no node of the graph is
\* logged, leaves waiting and working, and the loop still ends with every
\* other segment enumerated.
C18_UnknownEndpoint ==
    \A seg \in Segments :
        (seg \in Range(queue) /\ ~Known(seg) /\ n_processors >= 2) =>
            <>(/\ LoopEnded
               /\ {seg[1], seg[3]} \ Range(node_id) \subseteq coord.log
               /\ \A other \in Range(needed_connections(coord.TSet_targets)) :
                     Known(other) => PathDataName(other) \in Range(ready4dict))

\* the closed file of that name is on disk
OnDisk(name) == \E f \in disk : f.name = name /\ f.closed

\* C19: a file is announced in ready4dict only once it is on disk under its
\* final name, and when the coordinator finds waiting and working empty the
\* final file of every dispatched segment is on disk.
C19_ArtifactsExist ==
    /\ \A name \in Range(ready4dict) : OnDisk(name)
    /\ coord.at = "exit" =>
          \A seg \in Range(needed_connections(coord.TSet_targets)) :
              OnDisk(PathDataName(seg))

\* what Step 1B reads when no file is missing: for every needed segment the
\* closed file holding its enumeration
CompleteFiles ==
    {[name |-> PathDataName(seg), segment |-> seg, closed |-> TRUE] :
        seg \in Range(needed_connections(coord.TSet_targets))}

C28_OneWorkerPerKey ==
    /\ \A seg \in DOMAIN coord.tasks : coord.tasks[seg] <= 1
    /\ \A w1, w2 \in DOMAIN workers :
          this_key(workers[w1]) = this_key(workers[w2]) => w1 = w2

\* the segment is in ready and no worker started for it is still running
Completed(seg) ==
    /\ PathDataName(seg) \in Range(ready4dict)
    /\ \A w \in DOMAIN workers : this_key(workers[w]) # seg

\* C23: whenever a key is completed, its paths listing Paths_<from>_<to>.txt
\* and its path metadata PathData_<from>_<to>.txt are both in Path_Files.
C23_BothArtifacts ==
    \A seg \in Segments :
        Completed(seg) => OnDisk(PathsName(seg)) /\ OnDisk(PathDataName(seg))

PoolSize == Max2(1, n_processors)

\* C26: the keys in working never outnumber the pool, max(1, cpu_count -
\* reserved_processors), and when keys wait a worker runs, also when
\* cpu_count - reserved_processors <= 1.
C26_PoolSize ==
    /\ [](Len(working) <= PoolSize)
    /\ (queue # <<>> /\ \A seg \in Range(queue) : Known(seg)) =>
           <>(workers # <<>>)

\* C27: while the run is in the queue loop of Step 1A, every needed segment
\* is in at least one of waiting, working and ready, whatever the
\* coordinator and the workers have done so far.
C27_NeverLost ==
    coord.at \in {"while", "for"} =>
        \A seg \in Range(needed_connections(coord.TSet_targets)) :
            \/ seg \in Range(queue)
            \/ PathDataName(seg) \in Range(working)
            \/ PathDataName(seg) \in Range(ready4dict)

\* one segment has gone from waiting to working, another from working to
\* ready, and a third still waits
C27_Witness ==
    /\ coord.at = "for"
    /\ \E seg \in Range(needed_connections(coord.TSet_targets)) :
          /\ seg \notin Range(queue)
          /\ PathDataName(seg) \in Range(working)
          /\ PathDataName(seg) \notin Range(ready4dict)
    /\ \E seg \in Range(needed_connections(coord.TSet_targets)) :
          /\ seg \notin Range(queue)
          /\ PathDataName(seg) \notin Range(working)
          /\ PathDataName(seg) \in Range(ready4dict)
    /\ queue # <<>>

\* C22: startup deletes every working_ file and leaves every final file as
\* it is; a segment whose final file is there is announced in ready and is
\* not queued, so that no worker is started for it in that run.
C22_StartupReuse ==
    [][coord.at = "killed" =>
          /\ \A f \in disk' : ~IsWorkingFile(f)
          /\ \A f \in disk :
                IsPathDataFile(f) =>
                    /\ f \in disk'
                    /\ f.name \in Range(ready4dict')
                    /\ SegmentOfFile(f.name) \notin Range(queue')]_vars

-----------------------------------------------------------------------------
(* Claims about mixed operators in one group                               *)

\* the missions of one ','-separated term of at most two nodes: the node,
\* both orders of a '+' pair, the one order of a '_' pair
TermMissions(term) ==
    IF Len(term) = 1 THEN {<<term>>}
    ELSE LET a == <<term[1]>>
             b == <<term[3]>>
         IN  IF term[2] = "+" THEN {<<a, b>>, <<b, a>>} ELSE {<<a, b>>}

\* C25: in a group that mixes ',' with '+' or '_' without inner parentheses
\* ',' binds loosest: the missions emitted are those of each ','-separated
\* term, so (A,B+C) gives A, B:C and C:B, and every waypoint is a node.
C25_CommaLoosest ==
    (Returned /\ tsets[exp.line_no] \in MixedGroups
              /\ "," \in Range(tsets[exp.line_no])) =>
        LET line == tsets[exp.line_no]
            terms == split(SubSeq(line, 2, Len(line) - 1), ",")
            emitted == {MissionWaypoints(exp.processed[k]) : k \in DOMAIN exp.processed}
        IN  /\ emitted = UNION {TermMissions(terms[k]) : k \in DOMAIN terms}
            /\ \A m \in emitted : Range(m) \subseteq Leaves

-----------------------------------------------------------------------------
(* Runs of the program over the files it leaves                            *)
(*                                                                         *)
(* The program is started several times in the same directory, with the    *)
(* logic file it is given each time, and may be killed anywhere.  What a   *)
(* run leaves for the next one is on disk: the PathData_ files, the        *)
(* working_ files of a killed run and the three pickles.  Step 1A is taken *)
(* one segment at a time here (n_processors = 2), and the enumeration and  *)
(* the reduction of a segment are taken as the one list they produce for   *)
(* it; the steps inside a worker are those of the scheduler model above.   *)

MaxRuns == 3          \* times the program is started

\* what the runs leave alone
runsIdle == <<enumVars, redVars, expVars, setup, mission_count, result,
              scenarios, invalid, missions>>

\* the sorted target lists of the logic files the runs are given
RunTargets == {<<"A">>, <<"A", "B">>}

\* mission_key of Step 1B and this_key of Step 3, "k1-k2", as the assembler
\* model writes the keys of eval_segments
MissionKey(seg_key) == <<seg_key[1], seg_key[3]>>

\* the reduced list Step 1B makes of one PathData_ file
Reduced(f) == <<f.segment>>

IsPickle(f, filename) == f.name = <<filename, ".pickle">>

\* load_pickle of a build that reads nothing
load_pickle_nothing(found, filename) == <<>>

\* load_pickle: the dictionary of the pickle, {} when there is none
load_pickle(found, filename) ==
    IF \E f \in found : IsPickle(f, filename)
    THEN (CHOOSE f \in found : IsPickle(f, filename)).data
    ELSE <<>>

\* 'with open(name, "wb") as handle: pickle.dump(dict, handle)'
save_pickle(found, filename, dict) ==
    {f \in found : ~IsPickle(f, filename)}
        \cup {[name |-> <<filename, ".pickle">>, data |-> dict]}

\* dict[k] = new[k] for every key k of new
Update(dict, new) ==
    [k \in DOMAIN dict \cup DOMAIN new |->
        IF k \in DOMAIN new THEN new[k] ELSE dict[k]]

\* the process is started: Step 0 loads the pickles that exist, Step 1 opens
\* Valid_Paths.txt for writing, and generate_paths deletes the working_
\* files, resumes from the PathData_ files and builds the queue
RunStart(targets) ==
    /\ pc = "runs"
    /\ coord.at \in {"off", "crashed"}
    /\ coord.runs < MaxRuns
    /\ LET kept == KeptFiles(disk)
           segment_paths == load_pickle(disk, "segment_paths")
           segment_pathdata == load_pickle(disk, "segment_pathdata")
           already_scanned == DOMAIN segment_paths
           r == Resume(needed_connections(targets), ExistingSegments(kept),
                       already_scanned)
       IN  /\ disk' = kept
           /\ eval_segments' = load_pickle(disk, "eval_segments")
           /\ paths_out' = <<>>
           /\ queue' = r.queue
           /\ ready4dict' = r.ready4dict
           /\ coord' = [coord EXCEPT
                          !.at = IF r.raised THEN "crashed" ELSE "while",
                          !.runs = @ + 1,
                          !.TSet_targets = targets,
                          !.file1 = \E f \in disk : IsPickle(f, "segment_paths"),
                          !.file2 = \E f \in disk : IsPickle(f, "segment_pathdata"),
                          !.file3 = \E f \in disk : IsPickle(f, "eval_segments"),
                          !.file4 = TRUE,
                          !.segment_paths = segment_paths,
                          !.segment_pathdata = segment_pathdata,
                          !.existing = Len(r.ready4dict),
                          !.tasks = <<>>]
    /\ working' = <<>>
    /\ workers' = <<>>
    /\ to_process' = {}
    /\ route_list' = <<>>
    /\ UNCHANGED <<runsIdle, pc, n_processors, node_id>>

\* one pass of the queue loop that starts a worker for the first queued
\* segment; the worker opens its working_ file
Dispatch ==
    /\ pc = "runs"
    /\ coord.at = "while"
    /\ queue # <<>>
    /\ Len(working) < n_processors - 1
    /\ LET my_segment == Head(queue)
           f_pathdata == PathDataName(my_segment)
       IN  /\ working' = Append(working, f_pathdata)
           /\ queue' = Tail(queue)
           /\ workers' = workers @@
                  (NewPid(my_segment) :>
                      [at |-> "open",
                       start |-> Find(node_id, my_segment[1]),
                       dest |-> Find(node_id, my_segment[3]),
                       paths_filename |-> PathsName(my_segment),
                       pathdata_filename |-> f_pathdata])
           /\ disk' = {f \in disk : f.name # WorkingName(my_segment)}
                          \cup {[name |-> WorkingName(my_segment),
                                 segment |-> my_segment, closed |-> FALSE]}
           /\ coord' = [coord EXCEPT !.file4 = FALSE,
                                     !.tasks = Started(@, my_segment)]
    /\ UNCHANGED <<runsIdle, pc, n_processors, node_id, ready4dict, to_process,
                   eval_segments, route_list, paths_out>>

\* the rest of save_this_data in one step: the file is closed, announced in
\* ready4dict, taken off working and renamed
Finalize(w) ==
    /\ pc = "runs"
    /\ coord.at = "while"
    /\ w \in DOMAIN workers
    /\ LET f1 == WorkingName(this_key(workers[w]))
           dst == workers[w].pathdata_filename
       IN  /\ ready4dict' = Append(ready4dict, dst)
           /\ working' = RemoveFirst(working, dst)
           /\ IF ~\E f \in disk : f.name = dst
              THEN disk' = {IF f.name = f1
                            THEN [f EXCEPT !.name = dst, !.closed = TRUE]
                            ELSE f : f \in disk}
              ELSE disk' = {IF f.name = f1 THEN [f EXCEPT !.closed = TRUE]
                            ELSE f : f \in disk}
    /\ workers' = [k \in DOMAIN workers \ {w} |-> workers[k]]
    /\ UNCHANGED <<runsIdle, pc, n_processors, node_id, queue, coord, to_process,
                   eval_segments, route_list, paths_out>>

\* 'while len(queue) > 0 or len(working) > 0' ends
LoopExit ==
    /\ pc = "runs"
    /\ coord.at = "while"
    /\ queue = <<>>
    /\ working = <<>>
    /\ coord' = [coord EXCEPT !.at = "exit"]
    /\ UNCHANGED <<runsIdle, pc, n_processors, node_id, queue, working, ready4dict,
                   workers, disk, to_process, eval_segments, route_list,
                   paths_out>>

\* 'if not file1 or not file2 or not file3 or not file4:' and, inside it,
\* the reduction of every PathData_ file that glob finds into the three
\* dictionaries
Step1BRuns ==
    /\ pc = "runs"
    /\ coord.at = "exit"
    /\ IF ~coord.file1 \/ ~coord.file2 \/ ~coord.file3 \/ ~coord.file4
       THEN LET found == {f \in disk : IsPathDataFile(f)}
                file(k) == CHOOSE f \in found : f.segment = k
                keys == {f.segment : f \in found}
                dictionary_updated == found # {}
            IN  /\ to_process' = found
                /\ eval_segments' =
                       Update(eval_segments,
                              [mk \in {MissionKey(k) : k \in keys} |->
                                  Reduced(CHOOSE f \in found :
                                              MissionKey(f.segment) = mk)])
                /\ coord' = [coord EXCEPT
                               !.segment_paths =
                                   Update(@, [k \in keys |-> Reduced(file(k))]),
                               !.segment_pathdata =
                                   Update(@, [k \in keys |-> Reduced(file(k))]),
                               !.at = IF dictionary_updated THEN "save_pathdata"
                                      ELSE "step2"]
       ELSE /\ coord' = [coord EXCEPT !.at = "step2"]
            /\ UNCHANGED <<to_process, eval_segments>>
    /\ UNCHANGED <<runsIdle, pc, n_processors, node_id, queue, working, ready4dict,
                   workers, disk, route_list, paths_out>>

save_pathdata_pickle ==
    /\ pc = "runs"
    /\ coord.at = "save_pathdata"
    /\ disk' = save_pickle(disk, "segment_pathdata", coord.segment_pathdata)
    /\ coord' = [coord EXCEPT !.at = "save_paths"]
    /\ UNCHANGED <<runsIdle, pc, n_processors, node_id, queue, working, ready4dict,
                   workers, to_process, eval_segments, route_list, paths_out>>

save_paths_pickle ==
    /\ pc = "runs"
    /\ coord.at = "save_paths"
    /\ disk' = save_pickle(disk, "segment_paths", coord.segment_paths)
    /\ coord' = [coord EXCEPT !.at = "save_eval"]
    /\ UNCHANGED <<runsIdle, pc, n_processors, node_id, queue, working, ready4dict,
                   workers, to_process, eval_segments, route_list, paths_out>>

save_eval_pickle ==
    /\ pc = "runs"
    /\ coord.at = "save_eval"
    /\ disk' = save_pickle(disk, "eval_segments", eval_segments)
    /\ coord' = [coord EXCEPT !.at = "step2"]
    /\ UNCHANGED <<runsIdle, pc, n_processors, node_id, queue, working, ready4dict,
                   workers, to_process, eval_segments, route_list, paths_out>>

\* the legs Step 3 looks up; the missions of the model go over every needed
\* connection once, in the order of the list
Legs(targets) == needed_connections(targets)

\* eval_segments.get(this_key, [])
Get(dict, key) == IF key \in DOMAIN dict THEN dict[key] ELSE <<>>

\* Step 3: route_list gets the path options of every leg
Step3Runs ==
    /\ pc = "runs"
    /\ coord.at = "step2"
    /\ route_list' = [k \in DOMAIN Legs(coord.TSet_targets) |->
                         Get(eval_segments,
                             MissionKey(Legs(coord.TSet_targets)[k]))]
    /\ coord' = [coord EXCEPT !.at = "step3"]
    /\ UNCHANGED <<runsIdle, pc, n_processors, node_id, queue, working, ready4dict,
                   workers, disk, to_process, eval_segments, paths_out>>

\* Steps 4 and 5 write Valid_Paths.txt from route_list and the run ends;
\* last_targets and last_paths_out keep what the run was given and wrote
Step4Runs ==
    /\ pc = "runs"
    /\ coord.at = "step3"
    /\ paths_out' = Flatten(route_list)
    /\ coord' = [coord EXCEPT !.at = "off",
                              !.last_targets = coord.TSet_targets,
                              !.last_paths_out = Flatten(route_list)]
    /\ UNCHANGED <<runsIdle, pc, n_processors, node_id, queue, working, ready4dict,
                   workers, disk, to_process, eval_segments, route_list>>

\* the process and its workers are killed, wherever the run is; memory and
\* the manager lists go, the files stay
KillRun ==
    /\ pc = "runs"
    /\ coord.at \notin {"off", "crashed"}
    /\ coord' = [coord EXCEPT !.at = "off"]
    /\ workers' = <<>>
    /\ queue' = <<>>
    /\ working' = <<>>
    /\ ready4dict' = <<>>
    /\ eval_segments' = <<>>
    /\ route_list' = <<>>
    /\ UNCHANGED <<runsIdle, pc, n_processors, node_id, disk, to_process, paths_out>>

InitRuns ==
    /\ pc = "runs"
    /\ node_id = <<"start", "A", "B">>
    /\ n_processors = 2
    /\ queue = <<>>
    /\ working = <<>>
    /\ ready4dict = <<>>
    /\ workers = <<>>
    /\ disk = {}
    /\ to_process = {}
    /\ coord = [at |-> "off", runs |-> 0, TSet_targets |-> <<>>,
                file1 |-> FALSE, file2 |-> FALSE, file3 |-> FALSE,
                file4 |-> TRUE, segment_paths |-> <<>>,
                segment_pathdata |-> <<>>, existing |-> 0, tasks |-> <<>>,
                last_targets |-> <<>>, last_paths_out |-> <<>>]
    /\ eval_segments = <<>>
    /\ route_list = <<>>
    /\ paths_out = <<>>
    /\ setup = <<>>
    /\ mission_count = 0
    /\ result = <<>>
    /\ scenarios = <<>>
    /\ invalid = <<>>
    /\ EnumIdle /\ RedIdle /\ ExpIdle

NextRuns ==
    \/ \E targets \in RunTargets : RunStart(targets)
    \/ Dispatch
    \/ \E w \in DOMAIN workers : Finalize(w)
    \/ LoopExit
    \/ Step1BRuns
    \/ save_pathdata_pickle
    \/ save_paths_pickle
    \/ save_eval_pickle
    \/ Step3Runs
    \/ Step4Runs
    \/ KillRun

SpecRuns == InitRuns /\ [][NextRuns]_vars

-----------------------------------------------------------------------------
(* Claims about runs over the files of earlier runs                        *)

\* a PathData_ file on disk that no needed connection of targets stands for
Stale(f, targets) ==
    IsPathDataFile(f) /\ f.segment \notin Range(needed_connections(targets))

\* C30: a start of the program that finds PathData_ files of segments the
\* logic no longer needs leaves them as they are, does not take them for the
\* run, and goes on to the queue loop with every needed segment either
\* queued, found on disk or known from the pickle.
C30_StaleIgnored ==
    [][(/\ coord.at \in {"off", "crashed"}
        /\ coord'.runs = coord.runs + 1
        /\ \E f \in disk : Stale(f, coord'.TSet_targets)) =>
          /\ coord'.at = "while"
          /\ \A f \in disk :
                Stale(f, coord'.TSet_targets) =>
                    f \in disk' /\ f.name \notin Range(ready4dict')
          /\ \A seg \in Range(needed_connections(coord'.TSet_targets)) :
                \/ seg \in Range(queue')
                \/ PathDataName(seg) \in Range(ready4dict')
                \/ seg \in DOMAIN coord'.segment_paths]_vars

\* C29: when Step 3 reads the reduced dictionary, every segment whose
\* PathData_ file is on disk has an entry in it, whatever runs, kills and
\* changes of the logic came before.
C29_FinalizedAreReduced ==
    coord.at = "step3" =>
        \A f \in disk :
            IsPathDataFile(f) => MissionKey(f.segment) \in DOMAIN eval_segments

\* the run found the three pickles and a PathData_ file for every needed
\* connection, and the last run that ended had the same logic
CacheFull ==
    /\ coord.file1 /\ coord.file2 /\ coord.file3
    /\ coord.existing = Cardinality(Range(needed_connections(coord.TSet_targets)))
    /\ coord.last_targets = coord.TSet_targets

\* C21: a run that finds the cache full, after a run with the same logic
\* ended, starts no worker and has in Step 3 the path lines, in the order,
\* that the earlier run wrote to Valid_Paths.txt.
C21_WarmRunSame ==
    (coord.at = "step3" /\ CacheFull) =>
        /\ coord.tasks = <<>>
        /\ Flatten(route_list) = coord.last_paths_out

C21_Witness ==
    /\ coord.at = "step3"
    /\ CacheFull
    /\ coord.TSet_targets = <<"A", "B">>
    /\ Len(coord.last_paths_out) = Len(needed_connections(<<"A", "B">>))
    /\ Flatten(route_list) = coord.last_paths_out

====
